---- MODULE Spec2Model ----
(***************************************************************************)
(* Verification model of hypermarket-clob.                                 *)
(*                                                                         *)
(*   - matching::orderbook::OrderBook  (src/src/matching/orderbook.rs):    *)
(*     price levels kept in two ordered maps, orders kept in a slab and    *)
(*     linked into per-level FIFO lists through next/prev indices.         *)
(*   - orderbook::MatchingEngine       (src/src/orderbook.rs)              *)
(*   - engine::shard::EngineShard      (src/src/engine/shard.rs)           *)
(*   - risk::RiskEngine                (src/src/risk/mod.rs)               *)
(*                                                                         *)
(* Timestamps (ts) are carried through the code without influencing any    *)
(* decision and are left out of the records.                               *)
(***************************************************************************)
EXTENDS Integers, Sequences, FiniteSets, TLC

\* ------------------------------------------------------------------ bounds
MaxPrice == 2
MaxQty == 2
MaxMatches == 2
MaxOrders == 3
MaxSeq == 3

\* Option::None for indices and order ids (valid ones are >= 0)
None == 0 - 1

Sides == {"Buy", "Sell"}
OrderTypes == {"Limit", "Market", "PostOnly", "Ioc", "Fok"}
TimeInForces == {"Gtc", "Ioc", "Fok"}
Prices == 1..MaxPrice
Quantities == 0..MaxQty

VARIABLES
    harness,     \* which program runs: "OrderBook", "MatchingEngine", "EngineShard",
                 \* "HandleEventSteps", "EngineShardMulti", "BatchAuction", "Router",
                 \* "Wal" or "RiskEngine"
    book,        \* a standalone matching::orderbook::OrderBook
    book_next,   \* next order id / ingress_seq the caller hands to the book
    book_last,   \* the last call on the book and what it returned
    engine,      \* an orderbook::MatchingEngine
    engine_last, \* the last call on the engine and what it returned
    shard,       \* an engine::shard::EngineShard
    shard_last,  \* the last call on the shard and what it returned
    hung,        \* TRUE once a call entered a loop it never leaves
    batch,       \* a standalone matching::batch::BatchAuction
    batch_last,  \* the last call on the auction and what it returned
    router,      \* engine::router::run_router: the bus, the channels, the shard
                 \* tasks and the WAL file they write
    walfile,     \* a file written by persistence::wal::Wal and what Wal::load read
    risk_engine, \* the RiskState of a standalone risk::RiskEngine
    risk_last    \* the last validate_order call on it and what it returned

bookVars == <<book, book_next, book_last>>
engineVars == <<engine, engine_last>>
shardVars == <<shard, shard_last>>
batchVars == <<batch, batch_last>>
riskVars == <<risk_engine, risk_last>>
vars ==
    <<harness, book, book_next, book_last, engine, engine_last, shard, shard_last, hung,
      batch, batch_last, router, walfile, risk_engine, risk_last>>

\* ------------------------------------------------------------- utilities
SetMin(S) == CHOOSE x \in S : \A y \in S : x <= y
SetMax(S) == CHOOSE x \in S : \A y \in S : x >= y
MinOf(a, b) == IF a <= b THEN a ELSE b

RECURSIVE SumSeqQty(_)
SumSeqQty(fs) == IF fs = <<>> THEN 0 ELSE Head(fs).qty + SumSeqQty(Tail(fs))

\* map insert / remove on functions used as BTreeMap / HashMap
MapPut(m, k, v) == [x \in DOMAIN m \cup {k} |-> IF x = k THEN v ELSE m[x]]
MapDel(m, k) == [x \in DOMAIN m \ {k} |-> m[x]]
EmptyMap == [x \in {} |-> 0]

\* ------------------------------------------------------------------ slab
\* slab::Slab: occupied entries by key, LIFO free list, number of slots.
EmptySlab == [entries |-> EmptyMap, free |-> <<>>, len |-> 0]

SlabNextKey(s) == IF s.free # <<>> THEN Head(s.free) ELSE s.len

SlabInsert(s, v) ==
    IF s.free # <<>>
    THEN [entries |-> MapPut(s.entries, Head(s.free), v), free |-> Tail(s.free), len |-> s.len]
    ELSE [entries |-> MapPut(s.entries, s.len, v), free |-> s.free, len |-> s.len + 1]

SlabRemove(s, k) ==
    [entries |-> MapDel(s.entries, k), free |-> <<k>> \o s.free, len |-> s.len]

\* ------------------------------------------------------------- OrderBook
EmptyLevel == [head |-> None, tail |-> None, total_qty |-> 0]

OrderBookNew ==
    [bids |-> EmptyMap, asks |-> EmptyMap, orders |-> EmptySlab, order_index |-> EmptyMap]

\* the map a side's own orders rest in
SideMap(b, side) == IF side = "Buy" THEN b.bids ELSE b.asks
WithSideMap(b, side, m) ==
    IF side = "Buy" THEN [b EXCEPT !.bids = m] ELSE [b EXCEPT !.asks = m]
Opposite(side) == IF side = "Buy" THEN "Sell" ELSE "Buy"

has_order(b, order_id) == order_id \in DOMAIN b.order_index

crosses(side, order_type, limit_price, best_price) ==
    IF order_type = "Market" THEN TRUE
    ELSE IF side = "Buy" THEN limit_price >= best_price
    ELSE limit_price <= best_price

would_cross(b, side, price_ticks) ==
    IF side = "Buy"
    THEN IF DOMAIN b.asks = {} THEN FALSE ELSE price_ticks >= SetMin(DOMAIN b.asks)
    ELSE IF DOMAIN b.bids = {} THEN FALSE ELSE price_ticks <= SetMax(DOMAIN b.bids)

\* walk the opposite side from the best price, stop at the first level that
\* does not cross
RECURSIVE AvailableFrom(_, _, _)
AvailableFrom(levels, incoming, todo) ==
    IF todo = {} THEN 0
    ELSE LET price == IF incoming.side = "Buy" THEN SetMin(todo) ELSE SetMax(todo)
         IN IF ~crosses(incoming.side, incoming.order_type, incoming.price_ticks, price)
            THEN 0
            ELSE levels[price].total_qty + AvailableFrom(levels, incoming, todo \ {price})

available_qty(b, incoming) ==
    LET levels == SideMap(b, Opposite(incoming.side))
    IN AvailableFrom(levels, incoming, DOMAIN levels)

SatSub(a, c) == IF a >= c THEN a - c ELSE 0

\* mutant: the level's total is not lowered when an order is unlinked
detach_from_level_keep_total(b, idx, order) ==
    LET m == SideMap(b, order.side)
    IN IF order.price_ticks \notin DOMAIN m THEN b
       ELSE
         LET level == m[order.price_ticks]
             level2 == [head |-> IF level.head = idx THEN order.next ELSE level.head,
                        tail |-> IF level.tail = idx THEN order.prev ELSE level.tail,
                        total_qty |-> level.total_qty]
             e0 == b.orders.entries
             e1 == IF order.prev # None
                   THEN [e0 EXCEPT ![order.prev].next = order.next] ELSE e0
             e2 == IF order.next # None
                   THEN [e1 EXCEPT ![order.next].prev = order.prev] ELSE e1
             b1 == WithSideMap(b, order.side, MapPut(m, order.price_ticks, level2))
         IN [b1 EXCEPT !.orders.entries = e2]

detach_from_level(b, idx, order) ==
    LET m == SideMap(b, order.side)
    IN IF order.price_ticks \notin DOMAIN m THEN b
       ELSE
         LET level == m[order.price_ticks]
             level2 == [head |-> IF level.head = idx THEN order.next ELSE level.head,
                        tail |-> IF level.tail = idx THEN order.prev ELSE level.tail,
                        total_qty |-> SatSub(level.total_qty, order.remaining)]
             e0 == b.orders.entries
             e1 == IF order.prev # None
                   THEN [e0 EXCEPT ![order.prev].next = order.next] ELSE e0
             e2 == IF order.next # None
                   THEN [e1 EXCEPT ![order.next].prev = order.prev] ELSE e1
             b1 == WithSideMap(b, order.side, MapPut(m, order.price_ticks, level2))
         IN [b1 EXCEPT !.orders.entries = e2]

remove_level_if_empty(b, side, price) ==
    LET m == SideMap(b, side)
    IN IF price \in DOMAIN m /\ m[price].total_qty = 0
       THEN WithSideMap(b, side, MapDel(m, price))
       ELSE b

\* mutant: the remainder is linked in front of the level's list
add_resting_front(b, incoming, remaining) ==
    LET m == SideMap(b, incoming.side)
        level == IF incoming.price_ticks \in DOMAIN m THEN m[incoming.price_ticks] ELSE EmptyLevel
        idx == SlabNextKey(b.orders)
        node == [order_id |-> incoming.order_id,
                 subaccount_id |-> incoming.subaccount_id,
                 side |-> incoming.side,
                 price_ticks |-> incoming.price_ticks,
                 remaining |-> remaining,
                 next |-> level.head,
                 prev |-> None,
                 ingress_seq |-> incoming.ingress_seq]
        s1 == SlabInsert(b.orders, node)
        s2 == IF level.head # None
              THEN [s1 EXCEPT !.entries[level.head].prev = idx] ELSE s1
        level2 == [head |-> idx,
                   tail |-> IF level.tail = None THEN idx ELSE level.tail,
                   total_qty |-> level.total_qty + remaining]
        b1 == WithSideMap(b, incoming.side, MapPut(m, incoming.price_ticks, level2))
    IN [b1 EXCEPT !.orders = s2,
                  !.order_index = MapPut(b.order_index, incoming.order_id, idx)]

add_resting(b, incoming, remaining) ==
    LET m == SideMap(b, incoming.side)
        level == IF incoming.price_ticks \in DOMAIN m THEN m[incoming.price_ticks] ELSE EmptyLevel
        idx == SlabNextKey(b.orders)
        node == [order_id |-> incoming.order_id,
                 subaccount_id |-> incoming.subaccount_id,
                 side |-> incoming.side,
                 price_ticks |-> incoming.price_ticks,
                 remaining |-> remaining,
                 next |-> None,
                 prev |-> level.tail,
                 ingress_seq |-> incoming.ingress_seq]
        s1 == SlabInsert(b.orders, node)
        s2 == IF level.tail # None
              THEN [s1 EXCEPT !.entries[level.tail].next = idx] ELSE s1
        level2 == [head |-> IF level.head = None THEN idx ELSE level.head,
                   tail |-> idx,
                   total_qty |-> level.total_qty + remaining]
        b1 == WithSideMap(b, incoming.side, MapPut(m, incoming.price_ticks, level2))
    IN [b1 EXCEPT !.orders = s2,
                  !.order_index = MapPut(b.order_index, incoming.order_id, idx)]

\* mutant: the order leaves the store and the index but stays linked in its level
cancel_without_detach(b, order_id) ==
    IF order_id \notin DOMAIN b.order_index THEN [book |-> b, ok |-> FALSE]
    ELSE [book |-> [b EXCEPT !.orders = SlabRemove(b.orders, b.order_index[order_id]),
                             !.order_index = MapDel(b.order_index, order_id)],
          ok |-> TRUE]

\* cancel returns the new book and the bool result
cancel(b, order_id) ==
    IF order_id \notin DOMAIN b.order_index THEN [book |-> b, ok |-> FALSE]
    ELSE LET idx == b.order_index[order_id]
         IN IF idx \notin DOMAIN b.orders.entries THEN [book |-> b, ok |-> FALSE]
            ELSE LET order == b.orders.entries[idx]
                     b1 == detach_from_level(b, idx, order)
                     b2 == [b1 EXCEPT !.orders = SlabRemove(b1.orders, idx),
                                      !.order_index = MapDel(b1.order_index, order_id)]
                 IN [book |-> b2, ok |-> TRUE]

NewFill(maker_order_id, taker_order_id, price_ticks, qty) ==
    [market_id |-> 0, maker_order_id |-> maker_order_id, taker_order_id |-> taker_order_id,
     price_ticks |-> price_ticks, qty |-> qty, maker_fee |-> 0, taker_fee |-> 0,
     engine_seq |-> 0, ts |-> 0]

\* mutant: the fill carries the taker's price
MatchHead_taker_price(b, incoming, remaining, best_price, head_idx) ==
    LET opp == Opposite(incoming.side)
        maker0 == b.orders.entries[head_idx]
        trade_qty == MinOf(remaining, maker0.remaining)
        maker == [maker0 EXCEPT !.remaining = @ - trade_qty]
        lv0 == SideMap(b, opp)[best_price]
        b1 == WithSideMap(b, opp,
                  MapPut(SideMap(b, opp), best_price, [lv0 EXCEPT !.total_qty = @ - trade_qty]))
        b2 == IF maker.remaining = 0
              THEN LET d == detach_from_level(b1, head_idx, maker)
                       d1 == [d EXCEPT !.orders = SlabRemove(d.orders, head_idx),
                                       !.order_index = MapDel(d.order_index, maker.order_id)]
                       lv == SideMap(d1, opp)[best_price]
                       lv2 == [lv EXCEPT !.head = maker.next,
                                         !.tail = IF maker.next = None THEN None ELSE @]
                   IN WithSideMap(d1, opp, MapPut(SideMap(d1, opp), best_price, lv2))
              ELSE [b1 EXCEPT !.orders.entries[head_idx] = maker]
        b3 == IF SideMap(b2, opp)[best_price].total_qty = 0
              THEN remove_level_if_empty(b2, incoming.side, best_price)
              ELSE b2
    IN [book |-> b3,
        remaining |-> remaining - trade_qty,
        fill |-> NewFill(maker.order_id, incoming.order_id, incoming.price_ticks, trade_qty)]

\* mutant: a partly filled maker is not written back to the slab
MatchHead_keep_maker(b, incoming, remaining, best_price, head_idx) ==
    LET opp == Opposite(incoming.side)
        maker0 == b.orders.entries[head_idx]
        trade_qty == MinOf(remaining, maker0.remaining)
        maker == [maker0 EXCEPT !.remaining = @ - trade_qty]
        lv0 == SideMap(b, opp)[best_price]
        b1 == WithSideMap(b, opp,
                  MapPut(SideMap(b, opp), best_price, [lv0 EXCEPT !.total_qty = @ - trade_qty]))
        b2 == IF maker.remaining = 0
              THEN LET d == detach_from_level(b1, head_idx, maker)
                       d1 == [d EXCEPT !.orders = SlabRemove(d.orders, head_idx),
                                       !.order_index = MapDel(d.order_index, maker.order_id)]
                       lv == SideMap(d1, opp)[best_price]
                       lv2 == [lv EXCEPT !.head = maker.next,
                                         !.tail = IF maker.next = None THEN None ELSE @]
                   IN WithSideMap(d1, opp, MapPut(SideMap(d1, opp), best_price, lv2))
              ELSE b1
        b3 == IF SideMap(b2, opp)[best_price].total_qty = 0
              THEN remove_level_if_empty(b2, incoming.side, best_price)
              ELSE b2
    IN [book |-> b3,
        remaining |-> remaining - trade_qty,
        fill |-> NewFill(maker.order_id, incoming.order_id, best_price, trade_qty)]

\* one successful match of the loop body (lines 146-182): the head maker of
\* the best level trades with the taker
MatchHead(b, incoming, remaining, best_price, head_idx) ==
    LET opp == Opposite(incoming.side)
        maker0 == b.orders.entries[head_idx]
        trade_qty == MinOf(remaining, maker0.remaining)
        maker == [maker0 EXCEPT !.remaining = @ - trade_qty]
        lv0 == SideMap(b, opp)[best_price]
        b1 == WithSideMap(b, opp,
                  MapPut(SideMap(b, opp), best_price, [lv0 EXCEPT !.total_qty = @ - trade_qty]))
        b2 == IF maker.remaining = 0
              THEN LET d == detach_from_level(b1, head_idx, maker)
                       d1 == [d EXCEPT !.orders = SlabRemove(d.orders, head_idx),
                                       !.order_index = MapDel(d.order_index, maker.order_id)]
                       lv == SideMap(d1, opp)[best_price]
                       lv2 == [lv EXCEPT !.head = maker.next,
                                         !.tail = IF maker.next = None THEN None ELSE @]
                   IN WithSideMap(d1, opp, MapPut(SideMap(d1, opp), best_price, lv2))
              ELSE [b1 EXCEPT !.orders.entries[head_idx] = maker]
        b3 == IF SideMap(b2, opp)[best_price].total_qty = 0
              THEN remove_level_if_empty(b2, incoming.side, best_price)
              ELSE b2
    IN [book |-> b3,
        remaining |-> remaining - trade_qty,
        fill |-> NewFill(maker.order_id, incoming.order_id, best_price, trade_qty)]

LoopResult(b, remaining, fills, hang) ==
    [book |-> b, remaining |-> remaining, fills |-> fills, hang |-> hang]

\* the while loop of place_order (lines 126-183).  An iteration that takes
\* the `continue` of line 143 without changing the book repeats forever:
\* that outcome is reported as hang.
RECURSIVE MatchLoop(_, _, _, _, _, _)
MatchLoop(b, incoming, remaining, matches, fills, max_matches) ==
    LET levels == SideMap(b, Opposite(incoming.side)) IN
    IF remaining = 0 \/ matches >= max_matches \/ DOMAIN levels = {}
    THEN LoopResult(b, remaining, fills, FALSE)
    ELSE
      LET best_price == IF incoming.side = "Buy" THEN SetMin(DOMAIN levels)
                        ELSE SetMax(DOMAIN levels)
          level == levels[best_price]
      IN IF ~crosses(incoming.side, incoming.order_type, incoming.price_ticks, best_price)
         THEN LoopResult(b, remaining, fills, FALSE)
         ELSE IF level.head = None
         THEN LET b2 == remove_level_if_empty(b, incoming.side, best_price)
              IN IF b2 = b THEN LoopResult(b, remaining, fills, TRUE)
                 ELSE MatchLoop(b2, incoming, remaining, matches, fills, max_matches)
         ELSE IF level.head \notin DOMAIN b.orders.entries
         THEN LoopResult(b, remaining, fills, FALSE)
         ELSE LET r == MatchHead(b, incoming, remaining, best_price, level.head)
              IN MatchLoop(r.book, incoming, r.remaining, matches + 1,
                           Append(fills, r.fill), max_matches)

PlaceResult(b, fills, resting_id, hang) ==
    [book |-> b, fills |-> fills, resting_id |-> resting_id, hang |-> hang]

\* what place_order does with the loop's outcome r (lines 185-200)
AfterMatching(r, incoming) ==
    IF r.hang THEN PlaceResult(r.book, r.fills, None, TRUE)
    ELSE IF r.remaining = 0 THEN PlaceResult(r.book, r.fills, None, FALSE)
    ELSE IF incoming.tif # "Gtc" THEN PlaceResult(r.book, r.fills, None, FALSE)
    ELSE IF incoming.order_type = "PostOnly" /\ r.fills # <<>>
    THEN PlaceResult(r.book, r.fills, None, FALSE)
    ELSE PlaceResult(add_resting(r.book, incoming, r.remaining), r.fills,
                     incoming.order_id, FALSE)

place_order(b, incoming, max_matches) ==
    IF incoming.tif = "Fok" /\ available_qty(b, incoming) < incoming.qty
    THEN PlaceResult(b, <<>>, None, FALSE)
    ELSE AfterMatching(MatchLoop(b, incoming, incoming.qty, 0, <<>>, max_matches), incoming)

\* --------------------------------------------- the book driven directly
IncomingOrder(order_id, subaccount_id, side, order_type, tif, price_ticks, qty, reduce_only, ingress_seq) ==
    [order_id |-> order_id, subaccount_id |-> subaccount_id, side |-> side,
     order_type |-> order_type, tif |-> tif, price_ticks |-> price_ticks, qty |-> qty,
     reduce_only |-> reduce_only, ingress_seq |-> ingress_seq]

NoIncoming == IncomingOrder(None, 0, "Buy", "Limit", "Gtc", 0, 0, FALSE, 0)

BookLast(op, incoming, max_matches, pre, fills, resting_id, ok, returned) ==
    [op |-> op, incoming |-> incoming, max_matches |-> max_matches, pre |-> pre,
     fills |-> fills, resting_id |-> resting_id, ok |-> ok, returned |-> returned]

\* no call in progress and no result held by the caller
BookIdle == BookLast("none", NoIncoming, 0, OrderBookNew, <<>>, None, FALSE, TRUE)

\* the state after place_order(incoming, max_matches) gave r
BookPlaced(incoming, max_matches, r) ==
    /\ book' = r.book
    /\ book_next' = book_next + 1
    /\ hung' = r.hang
    /\ book_last' = BookLast("place", incoming, max_matches, book, r.fills,
                             r.resting_id, FALSE, ~r.hang)

\* a caller places an order with a fresh order id (as the shard and the
\* tests do) and any max_matches
BookPlace ==
    /\ harness = "OrderBook"
    /\ ~hung
    /\ book_last = BookIdle
    /\ book_next <= MaxOrders
    /\ \E side \in Sides, order_type \in OrderTypes, tif \in TimeInForces,
          price_ticks \in Prices, qty \in Quantities, max_matches \in 0..MaxMatches :
         BookPlaced(IncomingOrder(book_next, 1, side, order_type, tif, price_ticks,
                                  qty, FALSE, book_next),
                    max_matches,
                    place_order(book,
                                IncomingOrder(book_next, 1, side, order_type, tif,
                                              price_ticks, qty, FALSE, book_next),
                                max_matches))
    /\ UNCHANGED <<harness, router, walfile, riskVars, batchVars, engineVars, shardVars>>

BookCancel ==
    /\ harness = "OrderBook"
    /\ ~hung
    /\ book_last = BookIdle
    /\ \E order_id \in 1..MaxOrders :
         LET r == cancel(book, order_id)
         IN /\ book' = r.book
            /\ book_last' = BookLast("cancel", [NoIncoming EXCEPT !.order_id = order_id], 0,
                                     book, <<>>, None, r.ok, TRUE)
    /\ UNCHANGED <<harness, router, walfile, riskVars, batchVars, book_next, hung, engineVars, shardVars>>

\* the caller drops the value the call returned
BookReturn ==
    /\ harness = "OrderBook"
    /\ ~hung
    /\ book_last # BookIdle
    /\ book_last' = BookIdle
    /\ UNCHANGED <<harness, router, walfile, riskVars, batchVars, book, book_next, hung, engineVars, shardVars>>

BookNext == BookPlace \/ BookCancel \/ BookReturn


\* -------------------------------------- MatchingEngine (src/orderbook.rs)
EngineMarkets == {"m1"}
EngineSides == {"Bid", "Ask"}
EngineKinds == {"Limit", "Market"}

ME_opposite(side) == IF side = "Bid" THEN "Ask" ELSE "Bid"

ME_OrderBookDefault == [bids |-> EmptyMap, asks |-> EmptyMap, orders |-> EmptyMap]
MatchingEngineNew == [books |-> EmptyMap, next_order_id |-> 0]

ME_Levels(b, side) == IF side = "Bid" THEN b.bids ELSE b.asks
ME_WithLevels(b, side, m) ==
    IF side = "Bid" THEN [b EXCEPT !.bids = m] ELSE [b EXCEPT !.asks = m]

ME_add_resting(b, side, price, order_id, order) ==
    LET levels == ME_Levels(b, side)
        queue == IF price \in DOMAIN levels THEN levels[price] ELSE <<>>
        b1 == [b EXCEPT !.orders = MapPut(b.orders, order_id, order)]
    IN ME_WithLevels(b1, side, MapPut(levels, price, Append(queue, order_id)))

\* Some((price, maker_id)) as a record, None as [some |-> FALSE]
ME_peek_best_maker(b, maker_side) ==
    LET levels == ME_Levels(b, maker_side)
    IN IF DOMAIN levels = {} THEN [some |-> FALSE, price |-> 0, maker_id |-> None]
       ELSE LET price == IF maker_side = "Bid" THEN SetMax(DOMAIN levels)
                         ELSE SetMin(DOMAIN levels)
            IN IF levels[price] = <<>> THEN [some |-> FALSE, price |-> 0, maker_id |-> None]
               ELSE [some |-> TRUE, price |-> price, maker_id |-> Head(levels[price])]

ME_pop_front_at_price(b, side, price) ==
    LET levels == ME_Levels(b, side)
    IN IF price \notin DOMAIN levels \/ levels[price] = <<>> THEN b
       ELSE LET queue == Tail(levels[price])
            IN IF queue = <<>> THEN ME_WithLevels(b, side, MapDel(levels, price))
               ELSE ME_WithLevels(b, side, MapPut(levels, price, queue))

ME_Retain(queue, order_id) == SelectSeq(queue, LAMBDA id : id # order_id)

ME_cancel(b, order_id) ==
    IF order_id \notin DOMAIN b.orders THEN [book |-> b, ok |-> FALSE]
    ELSE LET resting == b.orders[order_id]
             b1 == [b EXCEPT !.orders = MapDel(b.orders, order_id)]
             levels == ME_Levels(b1, resting.side)
         IN IF resting.price \notin DOMAIN levels THEN [book |-> b1, ok |-> TRUE]
            ELSE LET queue == ME_Retain(levels[resting.price], order_id)
                 IN [book |-> IF queue = <<>>
                              THEN ME_WithLevels(b1, resting.side, MapDel(levels, resting.price))
                              ELSE ME_WithLevels(b1, resting.side,
                                                 MapPut(levels, resting.price, queue)),
                     ok |-> TRUE]

\* can_fully_fill: walk the makers in matching order, taking each one's
\* remaining off the order's quantity (saturating)
RECURSIVE ME_FillQueue(_, _, _)
ME_FillQueue(b, queue, remaining) ==
    IF queue = <<>> \/ remaining = 0 THEN remaining
    ELSE IF Head(queue) \notin DOMAIN b.orders THEN ME_FillQueue(b, Tail(queue), remaining)
    ELSE ME_FillQueue(b, Tail(queue), SatSub(remaining, b.orders[Head(queue)].remaining))

RECURSIVE ME_FillLevels(_, _, _, _)
ME_FillLevels(b, order, todo, remaining) ==
    IF todo = {} THEN FALSE
    ELSE LET maker_side == ME_opposite(order.side)
             price == IF maker_side = "Ask" THEN SetMin(todo) ELSE SetMax(todo)
             beyond == /\ order.kind = "Limit"
                       /\ IF order.side = "Bid" THEN price > order.price
                          ELSE price < order.price
         IN IF beyond THEN FALSE
            ELSE LET r == ME_FillQueue(b, ME_Levels(b, maker_side)[price], remaining)
                 IN IF r = 0 THEN TRUE
                    ELSE ME_FillLevels(b, order, todo \ {price}, r)

\* a pre-check that counts the makers at every price, beyond the limit too
ME_can_fully_fill_any_price(b, order) ==
    IF order.quantity = 0 THEN FALSE
    ELSE ME_FillLevels(b, [order EXCEPT !.kind = "Market"],
                       DOMAIN ME_Levels(b, ME_opposite(order.side)), order.quantity)

ME_can_fully_fill(b, order) ==
    IF order.quantity = 0 THEN FALSE
    ELSE ME_FillLevels(b, order, DOMAIN ME_Levels(b, ME_opposite(order.side)), order.quantity)

ME_Fill(maker_order_id, taker_order_id, price, quantity, maker_user_id, taker_user_id) ==
    [maker_order_id |-> maker_order_id, taker_order_id |-> taker_order_id, price |-> price,
     quantity |-> quantity, maker_user_id |-> maker_user_id, taker_user_id |-> taker_user_id]

\* the while loop of MatchingEngine::place_order (lines 317-367)
RECURSIVE ME_MatchLoop(_, _, _, _, _)
ME_MatchLoop(b, order, order_id, taker_remaining, fills) ==
    IF taker_remaining = 0 THEN [book |-> b, remaining |-> taker_remaining, fills |-> fills]
    ELSE
      LET maker_side == ME_opposite(order.side)
          best == ME_peek_best_maker(b, maker_side)
      IN IF ~best.some THEN [book |-> b, remaining |-> taker_remaining, fills |-> fills]
         ELSE IF /\ order.kind = "Limit"
                 /\ ~(IF order.side = "Bid" THEN best.price <= order.price
                      ELSE best.price >= order.price)
         THEN [book |-> b, remaining |-> taker_remaining, fills |-> fills]
         ELSE
           LET maker_id == best.maker_id
               maker_remaining == IF maker_id \in DOMAIN b.orders
                                  THEN b.orders[maker_id].remaining ELSE 0
           IN IF maker_remaining = 0
              THEN LET b1 == ME_pop_front_at_price(b, maker_side, best.price)
                   IN ME_MatchLoop([b1 EXCEPT !.orders = MapDel(b1.orders, maker_id)],
                                   order, order_id, taker_remaining, fills)
              ELSE
                LET fill_qty == MinOf(taker_remaining, maker_remaining)
                    b1 == [b EXCEPT !.orders[maker_id].remaining = @ - fill_qty]
                    maker_filled == b1.orders[maker_id].remaining = 0
                    fill == ME_Fill(maker_id, order_id, best.price, fill_qty,
                                    b.orders[maker_id].user_id, order.user_id)
                    b2 == IF maker_filled
                          THEN LET p == ME_pop_front_at_price(b1, maker_side, best.price)
                               IN [p EXCEPT !.orders = MapDel(p.orders, maker_id)]
                          ELSE b1
                IN ME_MatchLoop(b2, order, order_id, taker_remaining - fill_qty,
                                Append(fills, fill))

ME_Result(e, ok, variant, order_id, remaining, fills) ==
    [engine |-> e, ok |-> ok, variant |-> variant, order_id |-> order_id,
     remaining |-> remaining, fills |-> fills]

\* a place_order that posts the remainder of every Limit order, Ioc too
ME_place_order_posts_ioc(e, market_id, order) ==
    IF order.quantity = 0 THEN ME_Result(e, FALSE, "ZeroQuantity", None, 0, <<>>)
    ELSE
      LET book0 == IF market_id \in DOMAIN e.books THEN e.books[market_id]
                   ELSE ME_OrderBookDefault
          e0 == [e EXCEPT !.books = MapPut(e.books, market_id, book0)]
      IN IF order.time_in_force = "Fok" /\ ~ME_can_fully_fill(book0, order)
         THEN ME_Result(e0, FALSE, "FokNotFillable", None, 0, <<>>)
         ELSE
           LET order_id == e.next_order_id
               r == ME_MatchLoop(book0, order, order_id, order.quantity, <<>>)
               filled_qty == order.quantity - r.remaining
               should_post == order.kind = "Limit" /\ order.time_in_force # "Fok"
               posted == ME_add_resting(r.book, order.side, order.price, order_id,
                             [user_id |-> order.user_id, side |-> order.side,
                              price |-> order.price, remaining |-> r.remaining])
               final == IF r.remaining # 0 /\ should_post THEN posted ELSE r.book
               e1 == [books |-> MapPut(e.books, market_id, final),
                      next_order_id |-> e.next_order_id + 1]
               variant == IF r.remaining = 0 THEN "FullyFilled"
                          ELSE IF should_post
                          THEN (IF filled_qty = 0 THEN "Posted" ELSE "PartiallyFilledAndPosted")
                          ELSE (IF filled_qty = 0 THEN "Canceled"
                                ELSE "PartiallyFilledAndCanceled")
           IN ME_Result(e1, TRUE, variant, order_id, r.remaining, r.fills)

ME_place_order(e, market_id, order) ==
    IF order.quantity = 0 THEN ME_Result(e, FALSE, "ZeroQuantity", None, 0, <<>>)
    ELSE
      LET book0 == IF market_id \in DOMAIN e.books THEN e.books[market_id]
                   ELSE ME_OrderBookDefault
          e0 == [e EXCEPT !.books = MapPut(e.books, market_id, book0)]
      IN IF order.time_in_force = "Fok" /\ ~ME_can_fully_fill(book0, order)
         THEN ME_Result(e0, FALSE, "FokNotFillable", None, 0, <<>>)
         ELSE
           LET order_id == e.next_order_id
               r == ME_MatchLoop(book0, order, order_id, order.quantity, <<>>)
               filled_qty == order.quantity - r.remaining
               should_post == order.kind = "Limit" /\ order.time_in_force = "Gtc"
               posted == ME_add_resting(r.book, order.side, order.price, order_id,
                             [user_id |-> order.user_id, side |-> order.side,
                              price |-> order.price, remaining |-> r.remaining])
               final == IF r.remaining # 0 /\ should_post THEN posted ELSE r.book
               e1 == [books |-> MapPut(e.books, market_id, final),
                      next_order_id |-> e.next_order_id + 1]
               variant == IF r.remaining = 0 THEN "FullyFilled"
                          ELSE IF should_post
                          THEN (IF filled_qty = 0 THEN "Posted" ELSE "PartiallyFilledAndPosted")
                          ELSE (IF filled_qty = 0 THEN "Canceled"
                                ELSE "PartiallyFilledAndCanceled")
           IN ME_Result(e1, TRUE, variant, order_id, r.remaining, r.fills)

ME_cancel_order(e, market_id, order_id) ==
    IF market_id \notin DOMAIN e.books THEN [engine |-> e, ok |-> FALSE]
    ELSE LET r == ME_cancel(e.books[market_id], order_id)
         IN [engine |-> [e EXCEPT !.books[market_id] = r.book], ok |-> r.ok]

\* types::NewOrder: Limit carries a price, Market does not
ME_NewOrder(kind, user_id, side, price, quantity, time_in_force) ==
    [kind |-> kind, user_id |-> user_id, side |-> side,
     price |-> IF kind = "Limit" THEN price ELSE None,
     quantity |-> quantity, time_in_force |-> time_in_force]

EngineLast(op, order, pre, result) ==
    [op |-> op, order |-> order, pre |-> pre, ok |-> result.ok, variant |-> result.variant,
     order_id |-> result.order_id, remaining |-> result.remaining, fills |-> result.fills]

EngineIdle ==
    EngineLast("none", ME_NewOrder("Market", 0, "Bid", 0, 0, "Gtc"), MatchingEngineNew,
               ME_Result(MatchingEngineNew, FALSE, "none", None, 0, <<>>))

EnginePlace ==
    /\ harness = "MatchingEngine"
    /\ engine_last = EngineIdle
    /\ engine.next_order_id < MaxOrders
    /\ \E kind \in EngineKinds, side \in EngineSides, price \in Prices,
          quantity \in Quantities, time_in_force \in TimeInForces :
         LET order == ME_NewOrder(kind, 1, side, price, quantity, time_in_force)
             r == ME_place_order(engine, "m1", order)
         IN /\ engine' = r.engine
            /\ engine_last' = EngineLast("place", order, engine, r)
    /\ UNCHANGED <<harness, router, walfile, riskVars, batchVars, bookVars, shardVars, hung>>

EngineCancel ==
    /\ harness = "MatchingEngine"
    /\ engine_last = EngineIdle
    /\ \E order_id \in 0..(MaxOrders - 1) :
         LET r == ME_cancel_order(engine, "m1", order_id)
         IN /\ engine' = r.engine
            /\ engine_last' = EngineLast("cancel", EngineIdle.order, engine,
                   ME_Result(r.engine, r.ok, "cancel", order_id, 0, <<>>))
    /\ UNCHANGED <<harness, router, walfile, riskVars, batchVars, bookVars, shardVars, hung>>

\* the caller drops the value the call returned
EngineReturn ==
    /\ harness = "MatchingEngine"
    /\ engine_last # EngineIdle
    /\ engine_last' = EngineIdle
    /\ UNCHANGED <<harness, router, walfile, riskVars, batchVars, bookVars, engine, shardVars, hung>>

EngineNext == EnginePlace \/ EngineCancel \/ EngineReturn

\* ------------------------------------------------------ risk::RiskEngine
\* The integers of the risk engine are u64 / i64; the values reached here stay
\* far from the ends of their ranges, so no wrap-around is modelled.
BpsDenominator == 10000

MapGet(m, k, default) == IF k \in DOMAIN m THEN m[k] ELSE default
Abs(x) == IF x >= 0 THEN x ELSE 0 - x
\* i64 division rounds toward zero
TruncDiv(a, d) == IF a >= 0 THEN a \div d ELSE 0 - ((0 - a) \div d)

RiskStateNew ==
    [subaccounts |-> EmptyMap, mark_prices |-> EmptyMap, funding_indices |-> EmptyMap]

update_mark(rs, market_id, mark) ==
    [rs EXCEPT !.mark_prices = MapPut(@, market_id, mark)]

update_funding(rs, market_id, index) ==
    [rs EXCEPT !.funding_indices = MapPut(@, market_id, index)]

SubaccountDefault == [collateral |-> 0, positions |-> EmptyMap, cross_margin |-> FALSE]

ensure_subaccount(rs, subaccount_id) ==
    IF subaccount_id \in DOMAIN rs.subaccounts
    THEN rs
    ELSE [rs EXCEPT !.subaccounts = MapPut(@, subaccount_id, SubaccountDefault)]

Position(size, entry_price, funding_index) ==
    [size |-> size, entry_price |-> entry_price, funding_index |-> funding_index]

SignedQty(side, qty) == IF side = "Buy" THEN qty ELSE 0 - qty

PositionSize(rs, subaccount_id, market_id) ==
    IF subaccount_id \in DOMAIN rs.subaccounts
       /\ market_id \in DOMAIN rs.subaccounts[subaccount_id].positions
    THEN rs.subaccounts[subaccount_id].positions[market_id].size
    ELSE 0

RECURSIVE SumPnl(_, _, _)
SumPnl(rs, positions, todo) ==
    IF todo = {} THEN 0
    ELSE LET market_id == CHOOSE m \in todo : TRUE
             position == positions[market_id]
             mark == MapGet(rs.mark_prices, market_id, position.entry_price)
         IN position.size * (mark - position.entry_price)
            + SumPnl(rs, positions, todo \ {market_id})

equity(rs, subaccount_id) ==
    IF subaccount_id \notin DOMAIN rs.subaccounts THEN 0
    ELSE LET account == rs.subaccounts[subaccount_id]
         IN account.collateral + SumPnl(rs, account.positions, DOMAIN account.positions)

\* a validator that tests the position limit before the reduce-only flag
risk_validate_order_limit_first(rs, market, subaccount_id, side, order_type, price_ticks, qty, reduce_only) ==
    LET mark == MapGet(rs.mark_prices, market.market_id, price_ticks)
        band == market.price_band_bps
        lower == SatSub(mark, (mark * band) \div BpsDenominator)
        upper == mark + (mark * band) \div BpsDenominator
        position == PositionSize(rs, subaccount_id, market.market_id)
        projected == position + SignedQty(side, qty)
        im_required == ((price_ticks * qty) * market.initial_margin_bps) \div BpsDenominator
    IN IF order_type # "Market" /\ (price_ticks < lower \/ price_ticks > upper)
       THEN "PriceBand"
       ELSE IF Abs(projected) > market.max_position
       THEN "MaxPosition"
       ELSE IF reduce_only /\ Abs(projected) > Abs(position)
       THEN "ReduceOnly"
       ELSE IF equity(rs, subaccount_id) < im_required
       THEN "InsufficientMargin"
       ELSE "Ok"

\* RiskEngine::validate_order: "Ok" or the RiskError
risk_validate_order(rs, market, subaccount_id, side, order_type, price_ticks, qty, reduce_only) ==
    LET mark == MapGet(rs.mark_prices, market.market_id, price_ticks)
        band == market.price_band_bps
        lower == SatSub(mark, (mark * band) \div BpsDenominator)
        upper == mark + (mark * band) \div BpsDenominator
        position == PositionSize(rs, subaccount_id, market.market_id)
        projected == position + SignedQty(side, qty)
        im_required == ((price_ticks * qty) * market.initial_margin_bps) \div BpsDenominator
    IN IF order_type # "Market" /\ (price_ticks < lower \/ price_ticks > upper)
       THEN "PriceBand"
       ELSE IF reduce_only /\ Abs(projected) > Abs(position)
       THEN "ReduceOnly"
       ELSE IF Abs(projected) > market.max_position
       THEN "MaxPosition"
       ELSE IF equity(rs, subaccount_id) < im_required
       THEN "InsufficientMargin"
       ELSE "Ok"

apply_fill(rs, market, subaccount_id, side, price_ticks, qty, fee) ==
    LET rs1 == ensure_subaccount(rs, subaccount_id)
        account == rs1.subaccounts[subaccount_id]
        position == MapGet(account.positions, market.market_id, Position(0, price_ticks, 0))
        new_size == position.size + SignedQty(side, qty)
        updated == [position EXCEPT !.size = new_size, !.entry_price = price_ticks]
    IN [rs1 EXCEPT !.subaccounts[subaccount_id] =
            [account EXCEPT !.positions = MapPut(@, market.market_id, updated),
                            !.collateral = @ - fee]]

\* -------------------------------------------------- engine::shard::EngineShard
DedupeCapacity == 10000
ShardMaxMatches == 1024
BookDeltaDepth == 10

\* Option<String>: <<>> is None, <<x>> is Some(x)
NoneStr == <<>>
Some(x) == <<x>>

\* lru::LruCache<String, ()> as the keys from least to most recently used
LruNew == <<>>
LruContains(c, k) == \E i \in 1..Len(c) : c[i] = k
LruPut(c, k) ==
    IF LruContains(c, k)
    THEN Append(SelectSeq(c, LAMBDA x : x # k), k)
    ELSE IF Len(c) >= DedupeCapacity
    THEN Append(Tail(c), k)
    ELSE Append(c, k)

\* the input events
NewOrder(request_id, market_id, subaccount_id, side, order_type, tif, price_ticks, qty, reduce_only) ==
    [kind |-> "NewOrder", request_id |-> request_id, market_id |-> market_id,
     subaccount_id |-> subaccount_id, side |-> side, order_type |-> order_type,
     tif |-> tif, price_ticks |-> price_ticks, qty |-> qty, reduce_only |-> reduce_only,
     expiry_ts |-> 0, nonce |-> 0, client_ts |-> 0]

CancelOrder(request_id, market_id, subaccount_id, order_id) ==
    [kind |-> "CancelOrder", request_id |-> request_id, market_id |-> market_id,
     subaccount_id |-> subaccount_id, order_id |-> order_id,
     nonce_start |-> None, nonce_end |-> None]

PriceUpdate(market_id, mark_price, ts) ==
    [kind |-> "PriceUpdate", market_id |-> market_id, mark_price |-> mark_price,
     index_price |-> mark_price, ts |-> ts]

FundingUpdate(market_id, funding_index, ts) ==
    [kind |-> "FundingUpdate", market_id |-> market_id, funding_index |-> funding_index,
     ts |-> ts]

\* the output events
OrderAck(request_id, status, reject_reason, assigned_order_id, engine_seq, ts) ==
    [kind |-> "OrderAck", request_id |-> request_id, status |-> status,
     reject_reason |-> reject_reason, assigned_order_id |-> assigned_order_id,
     engine_seq |-> engine_seq, ts |-> ts]

BookLevel(price_ticks, qty) == [price_ticks |-> price_ticks, qty |-> qty]

BookDelta(market_id, bids_levels, asks_levels, engine_seq, ts) ==
    [kind |-> "BookDelta", market_id |-> market_id, bids_levels |-> bids_levels,
     asks_levels |-> asks_levels, engine_seq |-> engine_seq, ts |-> ts]

FillEvent(fill) ==
    [kind |-> "Fill", market_id |-> fill.market_id, maker_order_id |-> fill.maker_order_id,
     taker_order_id |-> fill.taker_order_id, price_ticks |-> fill.price_ticks,
     qty |-> fill.qty, maker_fee |-> fill.maker_fee, taker_fee |-> fill.taker_fee,
     engine_seq |-> fill.engine_seq, ts |-> fill.ts]

EventEnvelope(shard_id, engine_seq, event, ts) ==
    [shard_id |-> shard_id, engine_seq |-> engine_seq, event |-> event, ts |-> ts]

BatchAuctionDefault == [pending |-> <<>>]
batch_push(auction, order) == [auction EXCEPT !.pending = Append(@, order)]

ClearingResult(price, volume) == [price |-> price, volume |-> volume]

\* a call on a standalone auction: the pending orders it found, the mark price
\* it was given, and the three values clear returned
BatchLast(op, pre, mark_price, result, fills, resting) ==
    [op |-> op, pre |-> pre, mark_price |-> mark_price, result |-> result, fills |-> fills,
     resting |-> resting]
BatchIdle == BatchLast("none", <<>>, 0, ClearingResult(0, 0), <<>>, <<>>)

MarketStateNew(config) ==
    [config |-> config, book |-> OrderBookNew, batch |-> BatchAuctionDefault,
     pending |-> <<>>, open_orders_by_subaccount |-> EmptyMap]

open_orders_for_subaccount(market, subaccount_id) ==
    MapGet(market.open_orders_by_subaccount, subaccount_id, 0)

track_open_order_add(market, subaccount_id) ==
    [market EXCEPT !.open_orders_by_subaccount =
        MapPut(@, subaccount_id, MapGet(@, subaccount_id, 0) + 1)]

\* a market that never lowers a counter
track_open_order_remove_never(market, subaccount_id) == market

track_open_order_remove(market, subaccount_id) ==
    IF subaccount_id \notin DOMAIN market.open_orders_by_subaccount
    THEN market
    ELSE IF SatSub(market.open_orders_by_subaccount[subaccount_id], 1) = 0
    THEN [market EXCEPT !.open_orders_by_subaccount = MapDel(@, subaccount_id)]
    ELSE [market EXCEPT !.open_orders_by_subaccount[subaccount_id] = @ - 1]

\* the loop of EngineShard::new over the market configurations
RECURSIVE NewMarketStates(_, _, _)
NewMarketStates(markets, market_state, risk) ==
    IF markets = <<>>
    THEN [markets |-> market_state, risk |-> risk]
    ELSE NewMarketStates(Tail(markets),
                         MapPut(market_state, Head(markets).market_id,
                                MarketStateNew(Head(markets))),
                         update_mark(risk, Head(markets).market_id, Head(markets).tick_size))

EngineShardWith(shard_id, m, wal) ==
    [shard_id |-> shard_id, engine_seq |-> 0, next_order_id |-> 1,
     markets |-> m.markets, risk |-> m.risk, wal |-> wal,
     dedupe |-> LruNew, order_owners |-> EmptyMap]

EngineShardNew(shard_id, markets, wal, risk) ==
    EngineShardWith(shard_id, NewMarketStates(markets, EmptyMap, risk), wal)

upsert_market(s, market) ==
    LET risk == update_mark(s.risk, market.market_id, market.tick_size)
    IN IF market.market_id \in DOMAIN s.markets
       THEN [s EXCEPT !.risk = risk, !.markets[market.market_id].config = market]
       ELSE [s EXCEPT !.risk = risk,
                      !.markets = MapPut(@, market.market_id, MarketStateNew(market))]

\* OrderBook::snapshot(depth): the first depth levels of each side, best first
RECURSIVE SnapshotLevels(_, _, _, _)
SnapshotLevels(levels, todo, descending, depth) ==
    IF todo = {} \/ depth = 0 THEN <<>>
    ELSE LET price == IF descending THEN SetMax(todo) ELSE SetMin(todo)
         IN <<<<price, levels[price].total_qty>>>>
            \o SnapshotLevels(levels, todo \ {price}, descending, depth - 1)

snapshot(b, depth) ==
    [bids |-> SnapshotLevels(b.bids, DOMAIN b.bids, TRUE, depth),
     asks |-> SnapshotLevels(b.asks, DOMAIN b.asks, FALSE, depth)]

\* a book delta numbered as an event of its own, one past its input
book_delta_next_seq(s, market_id, snap, ts) ==
    EventEnvelope(s.shard_id, s.engine_seq + 1,
        BookDelta(market_id,
                  [i \in 1..Len(snap.bids) |-> BookLevel(snap.bids[i][1], snap.bids[i][2])],
                  [i \in 1..Len(snap.asks) |-> BookLevel(snap.asks[i][1], snap.asks[i][2])],
                  s.engine_seq + 1, ts),
        ts)

book_delta_from_snapshot(s, market_id, snap, ts) ==
    EventEnvelope(s.shard_id, s.engine_seq,
        BookDelta(market_id,
                  [i \in 1..Len(snap.bids) |-> BookLevel(snap.bids[i][1], snap.bids[i][2])],
                  [i \in 1..Len(snap.asks) |-> BookLevel(snap.asks[i][1], snap.asks[i][2])],
                  s.engine_seq, ts),
        ts)

\* mutant: the rejection names the order id the order would have received
reject_assigns_id(s, request_id, reason, ts) ==
    EventEnvelope(s.shard_id, s.engine_seq,
        OrderAck(request_id, "Rejected", Some(reason), s.next_order_id, s.engine_seq, ts),
        ts)

reject(s, request_id, reason, ts) ==
    EventEnvelope(s.shard_id, s.engine_seq,
        OrderAck(request_id, "Rejected", Some(reason), None, s.engine_seq, ts),
        ts)

fee_for(qty, price_ticks, fee_bps) == TruncDiv((qty * price_ticks) * fee_bps, BpsDenominator)

RiskErrorReason(err) ==
    CASE err = "PriceBand" -> "price band"
      [] err = "InsufficientMargin" -> "insufficient margin"
      [] err = "ReduceOnly" -> "reduce-only"
      [] err = "MaxPosition" -> "max position"

\* the checks of validate_order after the post-only check
ValidateRest(s, order, market) ==
    IF /\ order.tif = "Gtc" /\ order.order_type # "Market"
       /\ market.config.max_open_orders_per_subaccount > 0
       /\ open_orders_for_subaccount(market, order.subaccount_id)
            >= market.config.max_open_orders_per_subaccount
    THEN Some("max open orders per subaccount")
    ELSE LET res == risk_validate_order(s.risk, market.config, order.subaccount_id,
                                         order.side, order.order_type, order.price_ticks,
                                         order.qty, order.reduce_only)
         IN IF res = "Ok" THEN NoneStr ELSE Some(RiskErrorReason(res))

\* mutant: no post-only check
validate_order_no_post_only(s, order, market) == ValidateRest(s, order, market)

\* EngineShard::validate_order: <<>> for Ok(()), <<reason>> for Err(reason)
validate_order(s, order, market) ==
    IF order.order_type = "PostOnly" /\ would_cross(market.book, order.side, order.price_ticks)
    THEN Some("post-only would cross")
    ELSE ValidateRest(s, order, market)

ShardResult(s, outputs, hang) == [shard |-> s, outputs |-> outputs, hang |-> hang]

\* an emit_fills that books the taker of a fill and not its maker
EmitFill_taker_only(s, fill, market, ts) ==
    LET maker_fee == fee_for(fill.qty, fill.price_ticks, market.maker_fee_bps)
        taker_fee == fee_for(fill.qty, fill.price_ticks, market.taker_fee_bps)
        stamped == [fill EXCEPT !.market_id = market.market_id, !.engine_seq = s.engine_seq,
                                !.ts = ts, !.maker_fee = maker_fee, !.taker_fee = taker_fee]
        risk1 == s.risk
        risk2 == IF fill.taker_order_id \in DOMAIN s.order_owners
                 THEN apply_fill(risk1, market,
                                 s.order_owners[fill.taker_order_id][1],
                                 s.order_owners[fill.taker_order_id][2],
                                 fill.price_ticks, fill.qty, taker_fee)
                 ELSE risk1
    IN [shard |-> [s EXCEPT !.risk = risk2],
        event |-> EventEnvelope(s.shard_id, s.engine_seq, FillEvent(stamped), ts)]

\* one step of the map closure of emit_fills
EmitFill(s, fill, market, ts) ==
    LET maker_fee == fee_for(fill.qty, fill.price_ticks, market.maker_fee_bps)
        taker_fee == fee_for(fill.qty, fill.price_ticks, market.taker_fee_bps)
        stamped == [fill EXCEPT !.market_id = market.market_id, !.engine_seq = s.engine_seq,
                                !.ts = ts, !.maker_fee = maker_fee, !.taker_fee = taker_fee]
        risk1 == IF fill.maker_order_id \in DOMAIN s.order_owners
                 THEN apply_fill(s.risk, market,
                                 s.order_owners[fill.maker_order_id][1],
                                 s.order_owners[fill.maker_order_id][2],
                                 fill.price_ticks, fill.qty, maker_fee)
                 ELSE s.risk
        risk2 == IF fill.taker_order_id \in DOMAIN s.order_owners
                 THEN apply_fill(risk1, market,
                                 s.order_owners[fill.taker_order_id][1],
                                 s.order_owners[fill.taker_order_id][2],
                                 fill.price_ticks, fill.qty, taker_fee)
                 ELSE risk1
    IN [shard |-> [s EXCEPT !.risk = risk2],
        event |-> EventEnvelope(s.shard_id, s.engine_seq, FillEvent(stamped), ts)]

RECURSIVE EmitFillsFrom(_, _, _, _, _)
EmitFillsFrom(s, fills, market, ts, events) ==
    IF fills = <<>>
    THEN [shard |-> s, events |-> events]
    ELSE LET e == EmitFill(s, Head(fills), market, ts)
         IN EmitFillsFrom(e.shard, Tail(fills), market, ts, Append(events, e.event))

emit_fills(s, fills, market, ts) == EmitFillsFrom(s, fills, market, ts, <<>>)

RECURSIVE DropClosedMakers_keep_owner(_, _, _)
\* a shard that lowers the counters of closed makers but keeps their records
DropClosedMakers_keep_owner(s, market_id, closed_maker_ids) ==
    IF closed_maker_ids = <<>> THEN s
    ELSE LET maker_order_id == Head(closed_maker_ids)
         IN IF maker_order_id \in DOMAIN s.order_owners
            THEN DropClosedMakers_keep_owner(
                     [s EXCEPT !.markets[market_id] =
                                   track_open_order_remove(@, s.order_owners[maker_order_id][1])],
                     market_id, Tail(closed_maker_ids))
            ELSE DropClosedMakers_keep_owner(s, market_id, Tail(closed_maker_ids))

\* on_new_order, lines 289-295: the owner records and counters of the makers
\* that left the book
RECURSIVE DropClosedMakers(_, _, _)
DropClosedMakers(s, market_id, closed_maker_ids) ==
    IF closed_maker_ids = <<>> THEN s
    ELSE LET maker_order_id == Head(closed_maker_ids)
         IN IF maker_order_id \in DOMAIN s.order_owners
            THEN DropClosedMakers(
                     [s EXCEPT !.order_owners = MapDel(@, maker_order_id),
                               !.markets[market_id] =
                                   track_open_order_remove(@, s.order_owners[maker_order_id][1])],
                     market_id, Tail(closed_maker_ids))
            ELSE DropClosedMakers(s, market_id, Tail(closed_maker_ids))

\* on_new_order, lines 279-299, after the fills were emitted
\* a handler that reports the book before the fills
ContinuousTail_delta_first(e, order, order_id, ts, ack, snap, closed_maker_ids, taker_rested) ==
    LET s1 == IF taker_rested
              THEN [e.shard EXCEPT !.markets[order.market_id] =
                                       track_open_order_add(@, order.subaccount_id)]
              ELSE [e.shard EXCEPT !.order_owners = MapDel(@, order_id)]
        s2 == DropClosedMakers(s1, order.market_id, closed_maker_ids)
    IN ShardResult(s2,
                   <<ack>> \o <<book_delta_from_snapshot(s2, order.market_id, snap, ts)>>
                     \o e.events,
                   FALSE)

ContinuousTail(e, order, order_id, ts, ack, snap, closed_maker_ids, taker_rested) ==
    LET s1 == IF taker_rested
              THEN [e.shard EXCEPT !.markets[order.market_id] =
                                       track_open_order_add(@, order.subaccount_id)]
              ELSE [e.shard EXCEPT !.order_owners = MapDel(@, order_id)]
        s2 == DropClosedMakers(s1, order.market_id, closed_maker_ids)
    IN ShardResult(s2,
                   <<ack>> \o e.events
                     \o <<book_delta_from_snapshot(s2, order.market_id, snap, ts)>>,
                   FALSE)

\* on_new_order, lines 260-299, once place_order gave r
ContinuousPlaced(s, order, order_id, ts, ack, r) ==
    IF r.hang
    THEN ShardResult([s EXCEPT !.markets[order.market_id].book = r.book], <<>>, TRUE)
    ELSE ContinuousTail(
             emit_fills([s EXCEPT !.markets[order.market_id].book = r.book],
                        r.fills, s.markets[order.market_id].config, ts),
             order, order_id, ts, ack,
             snapshot(r.book, BookDeltaDepth),
             SelectSeq([i \in 1..Len(r.fills) |-> r.fills[i].maker_order_id],
                       LAMBDA id : ~has_order(r.book, id)),
             r.resting_id # None)

\* on_new_order, lines 222-303: the order passed validation
Sequenced(s, order, ts, order_id, incoming, ack) ==
    IF s.markets[order.market_id].config.matching_mode = "Continuous"
    THEN ContinuousPlaced(s, order, order_id, ts, ack,
                          place_order(s.markets[order.market_id].book, incoming,
                                      ShardMaxMatches))
    ELSE ShardResult([s EXCEPT !.markets[order.market_id].batch = batch_push(@, incoming)],
                     <<ack>>, FALSE)

\* on_new_order after the dedupe check
NewOrderUnseen(s, order, ts) ==
    LET s1 == [s EXCEPT !.dedupe = LruPut(@, order.request_id)]
    IN IF order.market_id \notin DOMAIN s1.markets
       THEN ShardResult(s1, <<reject(s1, order.request_id, "unknown market", ts)>>, FALSE)
       ELSE IF validate_order(s1, order, s1.markets[order.market_id]) # NoneStr
       THEN ShardResult(s1,
                <<reject(s1, order.request_id,
                         validate_order(s1, order, s1.markets[order.market_id])[1], ts)>>,
                FALSE)
       ELSE Sequenced(
                [s1 EXCEPT !.next_order_id = @ + 1,
                           !.order_owners = MapPut(@, s1.next_order_id,
                                                   <<order.subaccount_id, order.side>>)],
                order, ts, s1.next_order_id,
                IncomingOrder(s1.next_order_id, order.subaccount_id, order.side,
                              order.order_type, order.tif, order.price_ticks, order.qty,
                              order.reduce_only, s1.engine_seq),
                EventEnvelope(s1.shard_id, s1.engine_seq,
                    OrderAck(order.request_id, "Accepted", NoneStr, s1.next_order_id,
                             s1.engine_seq, ts),
                    ts))

\* mutant: no dedupe check
on_new_order_no_dedupe(s, order, ts) == NewOrderUnseen(s, order, ts)

on_new_order(s, order, ts) ==
    IF LruContains(s.dedupe, order.request_id)
    THEN ShardResult(s, <<>>, FALSE)
    ELSE NewOrderUnseen(s, order, ts)

\* on_cancel, lines 310-315, once book.cancel gave r
Cancelled(s, cancel_order, ts, r) ==
    IF ~r.ok THEN ShardResult(s, <<>>, FALSE)
    ELSE LET market0 == [s.markets[cancel_order.market_id] EXCEPT !.book = r.book]
             market1 == IF cancel_order.order_id \in DOMAIN s.order_owners
                        THEN track_open_order_remove(market0,
                                 s.order_owners[cancel_order.order_id][1])
                        ELSE market0
             s1 == [s EXCEPT !.order_owners = MapDel(@, cancel_order.order_id),
                             !.markets[cancel_order.market_id] = market1]
         IN ShardResult(s1,
                <<book_delta_from_snapshot(s1, cancel_order.market_id,
                                           snapshot(r.book, BookDeltaDepth), ts)>>,
                FALSE)

on_cancel(s, cancel_order, ts) ==
    IF cancel_order.order_id # None /\ cancel_order.market_id \in DOMAIN s.markets
    THEN Cancelled(s, cancel_order, ts,
                   cancel(s.markets[cancel_order.market_id].book, cancel_order.order_id))
    ELSE ShardResult(s, <<>>, FALSE)

wal_append(wal, envelope) == Append(wal, envelope)

RECURSIVE WalAppendAll(_, _)
WalAppendAll(wal, envelopes) ==
    IF envelopes = <<>> THEN wal
    ELSE WalAppendAll(wal_append(wal, Head(envelopes)), Tail(envelopes))

\* handle_event, lines 191-207, on the shard that logged the input
Dispatch(s, event, ts) ==
    CASE event.kind = "NewOrder" -> on_new_order(s, event, ts)
      [] event.kind = "CancelOrder" -> on_cancel(s, event, ts)
      [] event.kind = "PriceUpdate" ->
           ShardResult([s EXCEPT !.risk = update_mark(@, event.market_id, event.mark_price)],
                       <<>>, FALSE)
      [] event.kind = "FundingUpdate" ->
           ShardResult([s EXCEPT !.risk = update_funding(@, event.market_id,
                                                         event.funding_index)],
                       <<>>, FALSE)
      [] OTHER -> ShardResult(s, <<>>, FALSE)

LogOutputs(r) ==
    IF r.hang THEN r
    ELSE [r EXCEPT !.shard.wal = WalAppendAll(@, r.outputs)]

\* a shard that numbers orders only: any other input reuses the last engine_seq
handle_event_orders_only_seq(s, event, ts) ==
    LET seq == IF event.kind = "NewOrder" THEN s.engine_seq + 1 ELSE s.engine_seq
    IN LogOutputs(Dispatch(
           [s EXCEPT !.engine_seq = seq,
                     !.wal = wal_append(@, EventEnvelope(s.shard_id, seq, event, ts))],
           event, ts))

handle_event(s, event, ts) ==
    LogOutputs(Dispatch(
        [s EXCEPT !.engine_seq = @ + 1,
                  !.wal = wal_append(@, EventEnvelope(s.shard_id, s.engine_seq + 1, event, ts))],
        event, ts))

\* ------------------------------------------------------ the shard's callers
MarketIds == {1, 2}
SubaccountIds == {1, 2}
Timestamps == {1}
ShardTifs == {"Gtc", "Ioc"}
ShardQuantities == 1..MaxQty

\* the configuration the shard is created with: market 1, continuous, with an
\* open-order cap of one per subaccount; market 2 is not configured
ShardMarket ==
    [market_id |-> 1, tick_size |-> 1, lot_size |-> 1, maker_fee_bps |-> 0,
     taker_fee_bps |-> 0, initial_margin_bps |-> 2500, maintenance_margin_bps |-> 0,
     max_position |-> 2, price_band_bps |-> 5000, max_open_orders_per_subaccount |-> 1,
     matching_mode |-> "Continuous", batch_interval_ms |-> 0]
ShardMarkets == <<ShardMarket>>

ShardLast(op, event, ts, pre, outputs, returned) ==
    [op |-> op, event |-> event, ts |-> ts, pre |-> pre, outputs |-> outputs,
     returned |-> returned]

ShardInitial == EngineShardNew(0, ShardMarkets, <<>>, RiskStateNew)
ShardIdle == ShardLast("none", [kind |-> "none"], 0, ShardInitial, <<>>, TRUE)

\* the request ids the shard has seen, and one it has not
SeenRequests == {shard.dedupe[i] : i \in 1..Len(shard.dedupe)}
FreshRequest == shard.engine_seq + 1

\* new orders for the configured market, each under a fresh request id: limit
\* orders, market orders, post-only orders and reduce-only orders
FreshOrders ==
    {NewOrder(FreshRequest, 1, subaccount_id, side, "Limit", tif, price_ticks, qty, FALSE) :
        subaccount_id \in SubaccountIds, side \in Sides, tif \in ShardTifs,
        price_ticks \in Prices, qty \in ShardQuantities}
    \cup
    {NewOrder(FreshRequest, 1, subaccount_id, side, "Market", tif, 1, qty, FALSE) :
        subaccount_id \in SubaccountIds, side \in Sides, tif \in ShardTifs,
        qty \in ShardQuantities}
    \cup
    {NewOrder(FreshRequest, 1, subaccount_id, side, "PostOnly", "Gtc", price_ticks, 1, FALSE) :
        subaccount_id \in SubaccountIds, side \in Sides, price_ticks \in Prices}
    \cup
    {NewOrder(FreshRequest, 1, subaccount_id, side, "Limit", "Ioc", 1, 1, TRUE) :
        subaccount_id \in SubaccountIds, side \in Sides}

\* orders for a market the shard does not know
UnknownMarketOrders ==
    {NewOrder(FreshRequest, market_id, 1, "Buy", "Limit", "Gtc", 1, 1, FALSE) :
        market_id \in MarketIds \ {ShardMarket.market_id}}

\* redelivered requests: a request id the shard has seen
ReplayedOrders ==
    {NewOrder(request_id, 1, 1, "Buy", "Limit", "Gtc", 1, 1, FALSE) :
        request_id \in SeenRequests}

ShardHandled(event, ts, r) ==
    /\ shard' = r.shard
    /\ hung' = r.hang
    /\ shard_last' = ShardLast("handle_event", event, ts, shard, r.outputs, ~r.hang)

ShardCanHandle ==
    /\ harness = "EngineShard"
    /\ ~hung
    /\ shard.engine_seq < MaxSeq

ShardNewOrder ==
    /\ ShardCanHandle
    /\ \E order \in FreshOrders \cup UnknownMarketOrders \cup ReplayedOrders,
          ts \in Timestamps :
         ShardHandled(order, ts, handle_event(shard, order, ts))
    /\ UNCHANGED <<harness, router, walfile, riskVars, batchVars, bookVars, engineVars>>

ShardCancelOrder ==
    /\ ShardCanHandle
    /\ \E order_id \in (1..MaxSeq - 1) \cup {None}, subaccount_id \in SubaccountIds,
          ts \in Timestamps :
         ShardHandled(CancelOrder(0, 1, subaccount_id, order_id), ts,
                      handle_event(shard, CancelOrder(0, 1, subaccount_id, order_id), ts))
    /\ UNCHANGED <<harness, router, walfile, riskVars, batchVars, bookVars, engineVars>>

ShardPriceUpdate ==
    /\ ShardCanHandle
    /\ \E mark_price \in Prices, ts \in Timestamps :
         ShardHandled(PriceUpdate(1, mark_price, ts), ts,
                      handle_event(shard, PriceUpdate(1, mark_price, ts), ts))
    /\ UNCHANGED <<harness, router, walfile, riskVars, batchVars, bookVars, engineVars>>

ShardFundingUpdate ==
    /\ ShardCanHandle
    /\ \E ts \in Timestamps :
         ShardHandled(FundingUpdate(1, 1, ts), ts,
                      handle_event(shard, FundingUpdate(1, 1, ts), ts))
    /\ UNCHANGED <<harness, router, walfile, riskVars, batchVars, bookVars, engineVars>>

\* an event that is not an input of the matching (the arm `_` of handle_event)
ShardOtherEvent ==
    /\ ShardCanHandle
    /\ \E ts \in Timestamps :
         ShardHandled([kind |-> "SettlementBatch"], ts,
                      handle_event(shard, [kind |-> "SettlementBatch"], ts))
    /\ UNCHANGED <<harness, router, walfile, riskVars, batchVars, bookVars, engineVars>>

\* the router applies a market-config update
ShardUpsertMarket ==
    /\ harness = "EngineShard"
    /\ ~hung
    /\ \E market \in {ShardMarket} :
         /\ upsert_market(shard, market) # shard
         /\ shard' = upsert_market(shard, market)
         /\ shard_last' = ShardLast("upsert_market", [kind |-> "none"], 0, shard, <<>>, TRUE)
    /\ UNCHANGED <<harness, router, walfile, riskVars, batchVars, bookVars, engineVars, hung>>

ShardNext ==
    \/ ShardNewOrder
    \/ ShardCancelOrder
    \/ ShardPriceUpdate
    \/ ShardFundingUpdate
    \/ ShardOtherEvent
    \/ ShardUpsertMarket

\* ------------------------------------------------------- specifications
\* no router runs
RouterIdle == [running |-> FALSE]

\* no file at the path of the log, nothing appended, nothing loaded
WalFileNone == [file |-> NoneStr, appended |-> <<>>, torn |-> FALSE, loaded |-> NoneStr]

\* a validate_order call: the state it ran on, its arguments, what it returned
RiskLast(op, pre, market, subaccount_id, side, order_type, price_ticks, qty, reduce_only, result) ==
    [op |-> op, pre |-> pre, market |-> market, subaccount_id |-> subaccount_id, side |-> side,
     order_type |-> order_type, price_ticks |-> price_ticks, qty |-> qty,
     reduce_only |-> reduce_only, result |-> result]
RiskIdle == RiskLast("none", RiskStateNew, ShardMarket, 0, "Buy", "Limit", 0, 0, FALSE, "Ok")

InitState ==
    /\ book = OrderBookNew
    /\ book_next = 1
    /\ book_last = BookIdle
    /\ engine = MatchingEngineNew
    /\ engine_last = EngineIdle
    /\ shard = ShardInitial
    /\ shard_last = ShardIdle
    /\ hung = FALSE
    /\ batch = BatchAuctionDefault
    /\ batch_last = BatchIdle
    /\ router = RouterIdle
    /\ walfile = WalFileNone
    /\ risk_engine = RiskStateNew
    /\ risk_last = RiskIdle

BookInit == harness = "OrderBook" /\ InitState
EngineInit == harness = "MatchingEngine" /\ InitState
MatchInit == harness \in {"OrderBook", "MatchingEngine"} /\ InitState

\* the standalone OrderBook driven by place_order and cancel
SpecBook == BookInit /\ [][BookNext]_vars
\* the standalone MatchingEngine driven by place_order and cancel_order
SpecEngine == EngineInit /\ [][EngineNext]_vars
\* either of the two matching implementations
MatchNext == BookNext \/ EngineNext
SpecMatch == MatchInit /\ [][MatchNext]_vars
\* an EngineShard driven by handle_event and upsert_market
ShardInit == harness = "EngineShard" /\ InitState
SpecShard == ShardInit /\ [][ShardNext]_vars

\* the standalone OrderBook, or an EngineShard
BookShardInit == harness \in {"OrderBook", "EngineShard"} /\ InitState
BookShardNext == BookNext \/ ShardNext
SpecBookShard == BookShardInit /\ [][BookShardNext]_vars

\* ------------------------------------------------ views used by the claims
\* the resting orders of a book, read from the slab
Nodes(b) == {b.orders.entries[i] : i \in DOMAIN b.orders.entries}
SideNodes(b, side) == {n \in Nodes(b) : n.side = side}
HasNode(b, order_id) == \E n \in Nodes(b) : n.order_id = order_id
NodeById(b, order_id) == CHOOSE n \in Nodes(b) : n.order_id = order_id

RECURSIVE SumRemaining(_)
SumRemaining(S) ==
    IF S = {} THEN 0
    ELSE LET n == CHOOSE x \in S : TRUE IN n.remaining + SumRemaining(S \ {n})

\* the slab indices of a level's list, from head along next (at most fuel)
RECURSIVE WalkFrom(_, _, _)
WalkFrom(b, idx, fuel) ==
    IF idx = None \/ fuel = 0 \/ idx \notin DOMAIN b.orders.entries THEN <<>>
    ELSE <<idx>> \o WalkFrom(b, b.orders.entries[idx].next, fuel - 1)

QueueOf(b, side, price) ==
    WalkFrom(b, SideMap(b, side)[price].head, Cardinality(DOMAIN b.orders.entries) + 1)

RECURSIVE SumQueue(_, _)
SumQueue(b, q) ==
    IF q = <<>> THEN 0 ELSE b.orders.entries[Head(q)].remaining + SumQueue(b, Tail(q))

SeqToSet(q) == {q[i] : i \in 1..Len(q)}

\* quantity of the fills before position i, in all and on one maker
RECURSIVE FilledBefore(_, _)
FilledBefore(fs, i) == IF i <= 1 THEN 0 ELSE fs[i - 1].qty + FilledBefore(fs, i - 1)

RECURSIVE MakerFilledBefore(_, _, _)
MakerFilledBefore(fs, i, maker) ==
    IF i <= 1 THEN 0
    ELSE (IF fs[i - 1].maker_order_id = maker THEN fs[i - 1].qty ELSE 0)
         + MakerFilledBefore(fs, i - 1, maker)

BetterPrice(taker_side, p, q) == IF taker_side = "Buy" THEN p < q ELSE p > q

\* o is ahead of m in price-time priority for a taker of taker_side
Ahead(taker_side, o, m) ==
    \/ BetterPrice(taker_side, o.price_ticks, m.price_ticks)
    \/ o.price_ticks = m.price_ticks /\ o.ingress_seq < m.ingress_seq

PlaceReturned == book_last.op = "place" /\ book_last.returned

\* Price-time priority of OrderBook.place_order: every fill names an order
\* that rested on the opposite side, and every opposite order ahead of it was
\* completely filled by the fills before it.
BookPriceTime ==
    PlaceReturned =>
      LET pre == book_last.pre
          fs == book_last.fills
          ts == book_last.incoming.side
          opp == SideNodes(pre, Opposite(ts))
      IN \A i \in 1..Len(fs) :
           /\ \E m \in opp : m.order_id = fs[i].maker_order_id
           /\ LET m == CHOOSE x \in opp : x.order_id = fs[i].maker_order_id
              IN \A o \in opp :
                   Ahead(ts, o, m) => MakerFilledBefore(fs, i, o.order_id) = o.remaining

\* the same rule for MatchingEngine.place_order; its order ids grow with
\* every accepted order, so the smaller id rested earlier
EngineAhead(taker_side, o, m, pre) ==
    \/ IF taker_side = "Bid" THEN pre[o].price < pre[m].price ELSE pre[o].price > pre[m].price
    \/ pre[o].price = pre[m].price /\ o < m

RECURSIVE EngineMakerFilledBefore(_, _, _)
EngineMakerFilledBefore(fs, i, maker) ==
    IF i <= 1 THEN 0
    ELSE (IF fs[i - 1].maker_order_id = maker THEN fs[i - 1].quantity ELSE 0)
         + EngineMakerFilledBefore(fs, i - 1, maker)

EnginePreOrders ==
    IF "m1" \in DOMAIN engine_last.pre.books THEN engine_last.pre.books["m1"].orders
    ELSE EmptyMap

EnginePriceTime ==
    (engine_last.op = "place" /\ engine_last.ok) =>
      LET pre == EnginePreOrders
          fs == engine_last.fills
          ts == engine_last.order.side
          opp == {id \in DOMAIN pre : pre[id].side = ME_opposite(ts)}
      IN \A i \in 1..Len(fs) :
           /\ fs[i].maker_order_id \in opp
           /\ \A o \in opp :
                EngineAhead(ts, o, fs[i].maker_order_id, pre)
                  => EngineMakerFilledBefore(fs, i, o) = pre[o].remaining

\* C1: matching is in price-time priority, in OrderBook.place_order and in
\* MatchingEngine.place_order: fills take the opposite side best price first
\* and, within a price, in resting order; no maker is filled while an order
\* ahead of it still has quantity.
C1_PriceTimePriority == BookPriceTime /\ EnginePriceTime

C1_Witness ==
    /\ PlaceReturned
    /\ Len(book_last.fills) = 2
    /\ book_last.fills[1].price_ticks = book_last.fills[2].price_ticks
    /\ book_last.fills[1].maker_order_id < book_last.fills[2].maker_order_id

\* C2: every fill of place_order is priced at the resting maker's price, which
\* is the best price of the opposite orders that still have quantity, and a
\* non-Market taker never pays more (Buy) or receives less (Sell) than its limit.
C2_FillAtMakerPrice ==
    PlaceReturned =>
      LET pre == book_last.pre
          fs == book_last.fills
          inc == book_last.incoming
          opp == SideNodes(pre, Opposite(inc.side))
      IN \A i \in 1..Len(fs) :
           /\ \E m \in opp : m.order_id = fs[i].maker_order_id
                             /\ m.price_ticks = fs[i].price_ticks
           /\ \A o \in opp :
                MakerFilledBefore(fs, i, o.order_id) < o.remaining
                  => ~BetterPrice(inc.side, o.price_ticks, fs[i].price_ticks)
           /\ inc.order_type # "Market" =>
                IF inc.side = "Buy" THEN fs[i].price_ticks <= inc.price_ticks
                ELSE fs[i].price_ticks >= inc.price_ticks

C2_Witness ==
    /\ PlaceReturned
    /\ Len(book_last.fills) = 2
    /\ book_last.incoming.order_type = "Limit"
    /\ book_last.fills[1].price_ticks # book_last.incoming.price_ticks

\* C3 as claimed: a Fok order is filled completely or not at all, whatever
\* max_matches is, and never rests.
C3_FokAllOrNothing ==
    (PlaceReturned /\ book_last.incoming.tif = "Fok") =>
      /\ book_last.resting_id = None
      /\ ~HasNode(book, book_last.incoming.order_id)
      /\ \/ SumSeqQty(book_last.fills) = book_last.incoming.qty
         \/ book_last.fills = <<>> /\ book = book_last.pre

\* C4 as claimed: after place_order the incoming order rests only if its tif
\* is Gtc and its order_type is not Market.
C4_RestsOnlyGtcNonMarket ==
    PlaceReturned =>
      LET inc == book_last.incoming
      IN (book_last.resting_id # None \/ HasNode(book, inc.order_id))
           => (inc.tif = "Gtc" /\ inc.order_type # "Market")

\* C5: the book is well formed after every call: each level's total_qty is
\* the sum of remaining over its list, and the index holds exactly the orders
\* that are queued, each once, in the level of its side and price, remaining > 0.
WellFormedSide(b, side) ==
    \A price \in DOMAIN SideMap(b, side) :
      LET q == QueueOf(b, side, price)
          level == SideMap(b, side)[price]
      IN /\ level.total_qty = SumQueue(b, q)
         /\ Cardinality(SeqToSet(q)) = Len(q)
         /\ level.tail = (IF q = <<>> THEN None ELSE q[Len(q)])
         /\ \A i \in 1..Len(q) :
              LET n == b.orders.entries[q[i]]
              IN /\ n.side = side
                 /\ n.price_ticks = price
                 /\ n.remaining > 0
                 /\ has_order(b, n.order_id)
                 /\ b.order_index[n.order_id] = q[i]

QueuedIdx(b) ==
    UNION {UNION {SeqToSet(QueueOf(b, side, price)) : price \in DOMAIN SideMap(b, side)} :
             side \in Sides}

QueuedCount(b, idx) ==
    Cardinality({sp \in Sides \X (DOMAIN b.bids \cup DOMAIN b.asks) :
                   /\ sp[2] \in DOMAIN SideMap(b, sp[1])
                   /\ idx \in SeqToSet(QueueOf(b, sp[1], sp[2]))})

WellFormed(b) ==
    /\ WellFormedSide(b, "Buy")
    /\ WellFormedSide(b, "Sell")
    /\ \A order_id \in DOMAIN b.order_index :
         /\ b.order_index[order_id] \in DOMAIN b.orders.entries
         /\ b.orders.entries[b.order_index[order_id]].order_id = order_id
         /\ QueuedCount(b, b.order_index[order_id]) = 1
    /\ QueuedIdx(b) = DOMAIN b.orders.entries

C5_BookWellFormed == ~hung => WellFormed(book)

C5_Witness ==
    /\ book_last.op = "cancel" /\ book_last.ok
    /\ Cardinality(DOMAIN book.order_index) = 2
    /\ \E price \in DOMAIN book.asks : Len(QueueOf(book, "Sell", price)) = 2

\* C6: quantity is conserved by every match: each fill has
\* qty = min(taker remaining, maker remaining) > 0, the maker loses exactly
\* what its fills say, the rested remainder is qty minus the fills, and the
\* opposite side's resting quantity drops by exactly the sum of the fills.
C6_QuantityConserved ==
    PlaceReturned =>
      LET pre == book_last.pre
          fs == book_last.fills
          inc == book_last.incoming
          opp == Opposite(inc.side)
      IN /\ \A i \in 1..Len(fs) :
              /\ fs[i].qty > 0
              /\ HasNode(pre, fs[i].maker_order_id)
              /\ LET taker_left == inc.qty - FilledBefore(fs, i)
                     maker_left == NodeById(pre, fs[i].maker_order_id).remaining
                                     - MakerFilledBefore(fs, i, fs[i].maker_order_id)
                 IN fs[i].qty = (IF taker_left <= maker_left THEN taker_left
                                 ELSE maker_left)
         /\ \A m \in SideNodes(pre, opp) :
              LET after == IF HasNode(book, m.order_id)
                           THEN NodeById(book, m.order_id).remaining ELSE 0
              IN after = m.remaining - MakerFilledBefore(fs, Len(fs) + 1, m.order_id)
         /\ SumRemaining(SideNodes(book, opp)) =
              SumRemaining(SideNodes(pre, opp)) - SumSeqQty(fs)
         /\ SumSeqQty(fs) <= inc.qty
         /\ book_last.resting_id # None =>
              /\ HasNode(book, inc.order_id)
              /\ NodeById(book, inc.order_id).remaining = inc.qty - SumSeqQty(fs)

C6_Witness ==
    /\ PlaceReturned
    /\ Len(book_last.fills) = 1
    /\ book_last.resting_id # None
    /\ book_last.incoming.qty = 2

\* --------------------------------------------- views of the shard's last call
ShardReturned == harness = "EngineShard" /\ shard_last.op = "handle_event" /\ shard_last.returned

\* the last call handled a NewOrder and returned
LastNewOrder == ShardReturned /\ shard_last.event.kind = "NewOrder"

\* the shard s has logged a NewOrder input with this request id
HandledBefore(s, request_id) ==
    \E i \in 1..Len(s.wal) :
        /\ s.wal[i].event.kind = "NewOrder"
        /\ s.wal[i].event.request_id = request_id

\* the last call handled a NewOrder of a known market under a new request id
LastFreshOrder ==
    /\ LastNewOrder
    /\ ~HandledBefore(shard_last.pre, shard_last.event.request_id)
    /\ shard_last.event.market_id \in DOMAIN shard_last.pre.markets

PreBook == shard_last.pre.markets[shard_last.event.market_id].book
PostBook == shard.markets[shard_last.event.market_id].book

IsAck(envelope, status) ==
    envelope.event.kind = "OrderAck" /\ envelope.event.status = status

IsRejection(outputs, reason) ==
    /\ Len(outputs) = 1
    /\ IsAck(outputs[1], "Rejected")
    /\ outputs[1].event.reject_reason = Some(reason)
    /\ outputs[1].event.assigned_order_id = None

\* the price crosses the best price at which an opposite order rests
CrossesResting(b, side, price_ticks) ==
    LET resting == {n.price_ticks : n \in SideNodes(b, Opposite(side))}
    IN /\ resting # {}
       /\ IF side = "Buy" THEN price_ticks >= SetMin(resting)
                          ELSE price_ticks <= SetMax(resting)

\* the orders resting in a book, without their queue links
RestingOrders(b) ==
    {[order_id |-> n.order_id, subaccount_id |-> n.subaccount_id, side |-> n.side,
      price_ticks |-> n.price_ticks, remaining |-> n.remaining] : n \in Nodes(b)}

\* what a rejected or repeated order must leave alone
OrderStateUnchanged ==
    /\ shard.markets = shard_last.pre.markets
    /\ shard.risk = shard_last.pre.risk
    /\ shard.next_order_id = shard_last.pre.next_order_id
    /\ shard.order_owners = shard_last.pre.order_owners

\* C7: through handle_event a PostOnly order never trades. If its price crosses
\* the best opposite resting price, the only output is one OrderAck Rejected
\* with "post-only would cross" and the book is unchanged; an accepted PostOnly
\* order produces no Fill and leaves every resting order as it was.
C7_PostOnlyNeverTrades ==
    (LastFreshOrder /\ shard_last.event.order_type = "PostOnly") =>
        /\ CrossesResting(PreBook, shard_last.event.side, shard_last.event.price_ticks)
             => /\ IsRejection(shard_last.outputs, "post-only would cross")
                /\ PostBook = PreBook
        /\ (\E i \in 1..Len(shard_last.outputs) : IsAck(shard_last.outputs[i], "Accepted"))
             => /\ \A i \in 1..Len(shard_last.outputs) :
                      shard_last.outputs[i].event.kind # "Fill"
                /\ RestingOrders(PreBook) \subseteq RestingOrders(PostBook)

\* a PostOnly order that crosses a resting order was rejected
C7_Witness ==
    /\ LastFreshOrder
    /\ shard_last.event.order_type = "PostOnly"
    /\ CrossesResting(PreBook, shard_last.event.side, shard_last.event.price_ticks)
    /\ IsRejection(shard_last.outputs, "post-only would cross")

RestingCount(b, subaccount_id) ==
    Cardinality({n \in Nodes(b) : n.subaccount_id = subaccount_id})

\* the open-order cap of the market the last order named
PreCap == shard_last.pre.markets[shard_last.event.market_id].config.max_open_orders_per_subaccount

\* C8: with max_open_orders_per_subaccount = N > 0 no subaccount has more than
\* N orders resting in the market's book; a Gtc non-Market order arriving when
\* its subaccount has N resting orders is rejected with "max open orders per
\* subaccount", and only then.
C8_OpenOrderCap ==
    /\ (harness = "EngineShard" /\ ~hung) =>
         \A m \in DOMAIN shard.markets :
             shard.markets[m].config.max_open_orders_per_subaccount > 0 =>
                 \A subaccount_id \in SubaccountIds :
                     RestingCount(shard.markets[m].book, subaccount_id)
                         <= shard.markets[m].config.max_open_orders_per_subaccount
    /\ (LastFreshOrder /\ PreCap > 0) =>
         /\ ( /\ shard_last.event.tif = "Gtc"
              /\ shard_last.event.order_type = "Limit"
              /\ RestingCount(PreBook, shard_last.event.subaccount_id) >= PreCap )
             => IsRejection(shard_last.outputs, "max open orders per subaccount")
         /\ IsRejection(shard_last.outputs, "max open orders per subaccount")
             => RestingCount(PreBook, shard_last.event.subaccount_id) >= PreCap

\* the OrderAck envelopes the shard has logged
AckIndexes(s) == {i \in 1..Len(s.wal) : s.wal[i].event.kind = "OrderAck"}

\* C9: a NewOrder whose request_id the shard already handled (and still holds
\* in the dedupe set) returns no outputs and leaves books, counters, risk
\* state, next_order_id and owner records unchanged; a first occurrence
\* produces outputs; no request id is acknowledged twice.
C9_DedupeIdempotent ==
    /\ LastNewOrder =>
         /\ ( /\ HandledBefore(shard_last.pre, shard_last.event.request_id)
              /\ LruContains(shard_last.pre.dedupe, shard_last.event.request_id) )
             => (shard_last.outputs = <<>> /\ OrderStateUnchanged)
         /\ ~HandledBefore(shard_last.pre, shard_last.event.request_id)
             => shard_last.outputs # <<>>
    /\ harness = "EngineShard" =>
         \A i, j \in AckIndexes(shard) :
             shard.wal[i].event.request_id = shard.wal[j].event.request_id => i = j

\* a request that was accepted the first time was handled again while no
\* order was open, so that the same order under a new request id could rest
C9_Witness ==
    /\ LastNewOrder
    /\ HandledBefore(shard_last.pre, shard_last.event.request_id)
    /\ \E i \in AckIndexes(shard_last.pre) :
         /\ shard_last.pre.wal[i].event.request_id = shard_last.event.request_id
         /\ shard_last.pre.wal[i].event.status = "Accepted"
    /\ shard_last.pre.markets[1].open_orders_by_subaccount = EmptyMap
    /\ shard_last.outputs = <<>>

RejectReasons ==
    {"unknown market", "post-only would cross", "max open orders per subaccount",
     "price band", "reduce-only", "max position", "insufficient margin"}

\* the last call handled a NewOrder under a new request id
LastUnseenOrder ==
    LastNewOrder /\ ~HandledBefore(shard_last.pre, shard_last.event.request_id)

\* the order of the last call fails a check of the validation
FailsValidation ==
    \/ shard_last.event.market_id \notin DOMAIN shard_last.pre.markets
    \/ validate_order(shard_last.pre, shard_last.event,
                      shard_last.pre.markets[shard_last.event.market_id]) # NoneStr

\* C10: a NewOrder that fails validation yields exactly one output, an OrderAck
\* Rejected without an order id and with a reason of the closed set, no Fill
\* and no BookDelta, and leaves books, counters, risk state, next_order_id and
\* owner records unchanged; nothing else is rejected.
C10_RejectionIsClean ==
    LastUnseenOrder =>
        /\ FailsValidation =>
             /\ \E reason \in RejectReasons : IsRejection(shard_last.outputs, reason)
             /\ OrderStateUnchanged
        /\ shard_last.event.market_id \notin DOMAIN shard_last.pre.markets
             => IsRejection(shard_last.outputs, "unknown market")
        /\ (\E i \in 1..Len(shard_last.outputs) : IsAck(shard_last.outputs[i], "Rejected"))
             => /\ FailsValidation
                /\ \E reason \in RejectReasons : IsRejection(shard_last.outputs, reason)
                /\ OrderStateUnchanged

\* an order was rejected for its position while orders rest in the book
C10_Witness ==
    /\ LastUnseenOrder
    /\ IsRejection(shard_last.outputs, "max position")
    /\ shard_last.pre.risk.subaccounts # EmptyMap

\* ---------------------------------------------------------------------
\* Sequencing and the write-ahead log
\* ---------------------------------------------------------------------

\* the event kinds a caller hands to handle_event
InputKinds == {"NewOrder", "CancelOrder", "PriceUpdate", "FundingUpdate", "SettlementBatch"}

\* the engine_seq values of the input envelopes of a log, in log order
RECURSIVE InputSeqs(_)
InputSeqs(wal) ==
    IF wal = <<>> THEN <<>>
    ELSE IF Head(wal).event.kind \in InputKinds
         THEN <<Head(wal).engine_seq>> \o InputSeqs(Tail(wal))
         ELSE InputSeqs(Tail(wal))

LastHandled == harness = "EngineShard" /\ shard_last.op = "handle_event"

InputIndexes(wal) == {i \in 1..Len(wal) : wal[i].event.kind \in InputKinds}

\* the position of the input envelope an envelope at position i belongs to
InputIndexOf(wal, i) == SetMax({j \in InputIndexes(wal) : j <= i})

\* C12 as stated: every envelope of a shard's log, input and output alike,
\* carries an engine_seq that no other envelope of that log carries.
C12_EveryEnvelopeSeqUnique ==
    harness = "EngineShard" =>
        \A i, j \in 1..Len(shard.wal) :
            shard.wal[i].engine_seq = shard.wal[j].engine_seq => i = j

\* C12, amended: every input envelope of a shard's log carries an engine_seq
\* that no other input envelope of that log carries, and every output envelope
\* carries the engine_seq of the input envelope it follows.
C12_InputSeqUniqueOutputsShare ==
    harness = "EngineShard" =>
        /\ \A i, j \in InputIndexes(shard.wal) :
               shard.wal[i].engine_seq = shard.wal[j].engine_seq => i = j
        /\ \A i \in 1..Len(shard.wal) :
               /\ \E j \in InputIndexes(shard.wal) : j <= i
               /\ shard.wal[i].engine_seq = shard.wal[InputIndexOf(shard.wal, i)].engine_seq

\* an order that trades and rests logs an ack, a fill and a book delta under
\* the engine_seq of its input, and a later input follows
C12_Witness ==
    /\ harness = "EngineShard"
    /\ \E i \in InputIndexes(shard.wal) :
          /\ i + 4 <= Len(shard.wal)
          /\ shard.wal[i + 1].event.kind = "OrderAck"
          /\ shard.wal[i + 2].event.kind = "Fill"
          /\ shard.wal[i + 3].event.kind = "BookDelta"
          /\ shard.wal[i + 3].engine_seq = shard.wal[i].engine_seq
          /\ shard.wal[i + 4].event.kind \in InputKinds

\* ---------------------------------------------------------------------
\* handle_event, statement by statement (shard.rs 182-208)
\* ---------------------------------------------------------------------

\* the result of one statement: where the call stands, the shard, the outputs
StepResult(pc, s, outputs, hang) == [pc |-> pc, shard |-> s, outputs |-> outputs, hang |-> hang]

\* line 191-203: the match on the event
StepDispatched(r) ==
    StepResult(IF r.hang THEN "hung" ELSE "dispatched", r.shard, r.outputs, r.hang)

\* a handler that applies the event first and logs its input afterwards
handle_event_step_apply_first(pc, s, event, ts, outputs, logged) ==
    CASE pc = "called" ->
           StepResult("sequenced", [s EXCEPT !.engine_seq = @ + 1], <<>>, FALSE)
      [] pc = "sequenced" ->
           LET r == StepDispatched(Dispatch(s, event, ts))
           IN IF r.hang THEN r ELSE [r EXCEPT !.pc = "logged"]
      [] pc = "logged" ->
           StepResult("dispatched",
                      [s EXCEPT !.wal = wal_append(@, EventEnvelope(s.shard_id, s.engine_seq,
                                                                    event, ts))],
                      outputs, FALSE)
      [] pc = "dispatched" /\ logged < Len(outputs) ->
           StepResult("dispatched", [s EXCEPT !.wal = wal_append(@, outputs[logged + 1])],
                      outputs, FALSE)
      [] OTHER -> StepResult("returned", s, outputs, FALSE)

\* the next statement of a call that stands at pc; logged counts the outputs
\* the loop of lines 204-206 has appended so far
handle_event_step(pc, s, event, ts, outputs, logged) ==
    CASE pc = "called" ->
           StepResult("sequenced", [s EXCEPT !.engine_seq = @ + 1], <<>>, FALSE)
      [] pc = "sequenced" ->
           StepResult("logged",
                      [s EXCEPT !.wal = wal_append(@, EventEnvelope(s.shard_id, s.engine_seq,
                                                                    event, ts))],
                      <<>>, FALSE)
      [] pc = "logged" -> StepDispatched(Dispatch(s, event, ts))
      [] pc = "dispatched" /\ logged < Len(outputs) ->
           StepResult("dispatched", [s EXCEPT !.wal = wal_append(@, outputs[logged + 1])],
                      outputs, FALSE)
      [] OTHER -> StepResult("returned", s, outputs, FALSE)

StepPcs == {"called", "sequenced", "logged", "dispatched"}

\* the inputs of the statement-wise runs
StepInputs ==
    FreshOrders \cup ReplayedOrders
    \cup {CancelOrder(0, 1, 1, order_id) : order_id \in (1..MaxSeq - 1) \cup {None}}
    \cup {PriceUpdate(1, mark_price, 1) : mark_price \in Prices}
    \cup {[kind |-> "SettlementBatch"]}

\* the outputs of the running call that are in the log
StepLogged ==
    IF Len(shard.wal) > Len(shard_last.pre.wal)
    THEN Len(shard.wal) - Len(shard_last.pre.wal) - 1
    ELSE 0

\* a caller hands an event to handle_event
StepCall ==
    /\ harness = "HandleEventSteps"
    /\ ~hung
    /\ shard_last.op \in {"none", "returned"}
    /\ shard.engine_seq < MaxSeq - 1
    /\ \E event \in StepInputs, ts \in Timestamps :
         shard_last' = ShardLast("called", event, ts, shard, <<>>, FALSE)
    /\ UNCHANGED <<harness, router, walfile, riskVars, batchVars, bookVars, engineVars, shard, hung>>

\* the call executes its next statement
StepAdvance ==
    /\ harness = "HandleEventSteps"
    /\ ~hung
    /\ shard_last.op \in StepPcs
    /\ LET r == handle_event_step(shard_last.op, shard, shard_last.event, shard_last.ts,
                                  shard_last.outputs, StepLogged)
       IN /\ shard' = r.shard
          /\ hung' = r.hang
          /\ shard_last' = [shard_last EXCEPT !.op = r.pc, !.outputs = r.outputs,
                                              !.returned = (r.pc = "returned")]
    /\ UNCHANGED <<harness, router, walfile, riskVars, batchVars, bookVars, engineVars>>

StepNext == StepCall \/ StepAdvance
StepInit == harness = "HandleEventSteps" /\ InitState
SpecSteps == StepInit /\ [][StepNext]_vars

\* a call of handle_event is under way or has just ended
InCall == harness = "HandleEventSteps" /\ shard_last.op \in StepPcs \cup {"returned", "hung"}

\* the input envelope of the running call
StepInputEnvelope ==
    EventEnvelope(shard_last.pre.shard_id, shard_last.pre.engine_seq + 1,
                  shard_last.event, shard_last.ts)

InputIsLogged == Len(shard.wal) > Len(shard_last.pre.wal)

\* the log holds what it held before the call, then the input envelope, then
\* the outputs emitted so far in emission order, and all of them at the return
LogReadsInputThenOutputs ==
    /\ Len(shard.wal) >= Len(shard_last.pre.wal)
    /\ SubSeq(shard.wal, 1, Len(shard_last.pre.wal)) = shard_last.pre.wal
    /\ InputIsLogged => shard.wal[Len(shard_last.pre.wal) + 1] = StepInputEnvelope
    /\ StepLogged <= Len(shard_last.outputs)
    /\ \A k \in 1..StepLogged :
          shard.wal[Len(shard_last.pre.wal) + 1 + k] = shard_last.outputs[k]
    /\ shard_last.op = "returned" => (InputIsLogged /\ StepLogged = Len(shard_last.outputs))

\* C13 as stated: the envelope of an input event is appended before the event
\* changes any state and before the envelopes of its outputs, and all of them
\* before the next input: the log reads input_1, outputs_1, input_2, ...
C13_InputLoggedBeforeAnyChange ==
    InCall =>
        /\ ~InputIsLogged => shard = shard_last.pre
        /\ LogReadsInputThenOutputs

\* C13, amended: the envelope of an input event is appended after engine_seq
\* has been advanced for it but before the event changes any other state and
\* before the envelopes of its outputs, and all of them before the next
\* input: the log reads input_1, outputs_1, input_2, outputs_2, ... with
\* outputs in emission order.
C13_InputLoggedBeforeDispatch ==
    InCall =>
        /\ ~InputIsLogged =>
              \/ shard = shard_last.pre
              \/ shard = [shard_last.pre EXCEPT !.engine_seq = @ + 1]
        /\ LogReadsInputThenOutputs

\* the second input of a log trades and rests: its envelope is followed by an
\* ack, a fill and a book delta
C13_Witness ==
    /\ InCall
    /\ shard_last.op = "returned"
    /\ shard_last.pre.engine_seq = 1
    /\ Len(shard_last.outputs) = 3
    /\ shard_last.outputs[2].event.kind = "Fill"
    /\ Len(shard.wal) = Len(shard_last.pre.wal) + 4

\* ---------------------------------------------------------------------
\* EngineShard::snapshot and EngineShard::restore
\* ---------------------------------------------------------------------

OrderView(node) ==
    [order_id |-> node.order_id, subaccount_id |-> node.subaccount_id, side |-> node.side,
     price_ticks |-> node.price_ticks, remaining |-> node.remaining,
     ingress_seq |-> node.ingress_seq]

\* Slab::iter visits the occupied slots by ascending index
RECURSIVE OrderViewsOf(_, _)
OrderViewsOf(entries, keys) ==
    IF keys = {} THEN <<>>
    ELSE <<OrderView(entries[SetMin(keys)])>> \o OrderViewsOf(entries, keys \ {SetMin(keys)})

order_views(b) == OrderViewsOf(b.orders.entries, DOMAIN b.orders.entries)

\* EngineShard::snapshot: the EngineState of a shard
shard_snapshot(s) ==
    [shard_id |-> s.shard_id, engine_seq |-> s.engine_seq, next_order_id |-> s.next_order_id,
     orderbooks |-> [market_id \in DOMAIN s.markets |-> order_views(s.markets[market_id].book)],
     risk_state |-> s.risk]

\* lines 139-152: one order record of a snapshot goes back into its book
RestoreOrder(s, market_id, order, placed) ==
    [s EXCEPT !.markets[market_id] =
                  track_open_order_add([@ EXCEPT !.book = placed.book], order.subaccount_id),
              !.order_owners = MapPut(@, order.order_id, <<order.subaccount_id, order.side>>)]

RECURSIVE RestoreOrders(_, _, _)
RestoreOrders(s, market_id, orders) ==
    IF orders = <<>> THEN s
    ELSE RestoreOrders(
             RestoreOrder(s, market_id, Head(orders),
                          place_order(s.markets[market_id].book,
                                      IncomingOrder(Head(orders).order_id,
                                                    Head(orders).subaccount_id,
                                                    Head(orders).side, "Limit", "Gtc",
                                                    Head(orders).price_ticks,
                                                    Head(orders).remaining, FALSE,
                                                    Head(orders).ingress_seq),
                                      0)),
             market_id, Tail(orders))

\* the loop over state.orderbooks; the books of a snapshot are restored one
\* market at a time, each into its own MarketState, and markets the shard is
\* not configured with are skipped
RECURSIVE RestoreBooks(_, _, _)
RestoreBooks(s, orderbooks, todo) ==
    IF todo = {} THEN s
    ELSE LET market_id == SetMin(todo)
         IN RestoreBooks(IF market_id \in DOMAIN s.markets
                         THEN RestoreOrders(s, market_id, orderbooks[market_id])
                         ELSE s,
                         orderbooks, todo \ {market_id})

\* a restore that reads each book of the snapshot back to front
restore_reversed(state, markets, wal, risk) ==
    RestoreBooks([EngineShardNew(state.shard_id, markets, wal, risk)
                     EXCEPT !.engine_seq = state.engine_seq,
                            !.next_order_id = state.next_order_id,
                            !.risk = state.risk_state],
                 [market_id \in DOMAIN state.orderbooks |->
                     [k \in 1..Len(state.orderbooks[market_id]) |->
                         state.orderbooks[market_id][Len(state.orderbooks[market_id]) + 1 - k]]],
                 DOMAIN state.orderbooks)

restore(state, markets, wal, risk) ==
    RestoreBooks([EngineShardNew(state.shard_id, markets, wal, risk)
                     EXCEPT !.engine_seq = state.engine_seq,
                            !.next_order_id = state.next_order_id,
                            !.risk = state.risk_state],
                 state.orderbooks, DOMAIN state.orderbooks)

\* ---------------------------------------------------------------------
\* A shard with a Continuous and a Batch market that is snapshotted and
\* restored after it has handled MaxMultiSeq inputs
\* ---------------------------------------------------------------------
MaxMultiSeq == 4

MultiMarket ==
    [ShardMarket EXCEPT !.initial_margin_bps = 0, !.max_position = 2 * MaxMultiSeq,
                        !.price_band_bps = BpsDenominator,
                        !.max_open_orders_per_subaccount = 0]
MultiBatchMarket == [MultiMarket EXCEPT !.market_id = 2, !.matching_mode = "Batch"]
MultiMarkets == <<MultiMarket, MultiBatchMarket>>

MultiInitial == EngineShardNew(0, MultiMarkets, <<>>, RiskStateNew)

\* resting and taking limit orders of the Continuous market, orders of the
\* Batch market, and a redelivered request
MultiOrders ==
    {NewOrder(FreshRequest, 1, 1, side, "Limit", "Gtc", price_ticks, qty, FALSE) :
        side \in Sides, price_ticks \in Prices, qty \in ShardQuantities}
    \cup
    {NewOrder(FreshRequest, 1, 2, side, "Limit", "Gtc", 1, 1, FALSE) : side \in Sides}
    \cup
    {NewOrder(FreshRequest, 1, 2, side, "Limit", "Ioc", 1, MaxQty, FALSE) : side \in Sides}
    \cup
    {NewOrder(FreshRequest, 2, 1, side, "Limit", "Gtc", 1, 1, FALSE) : side \in Sides}
    \cup
    {NewOrder(request_id, 1, 1, "Buy", "Limit", "Gtc", 1, 1, FALSE) :
        request_id \in SeenRequests \cap {1}}

MultiCanHandle ==
    /\ harness = "EngineShardMulti"
    /\ ~hung
    /\ shard_last.op # "replay"
    /\ shard.engine_seq < MaxMultiSeq

MultiNewOrder ==
    /\ MultiCanHandle
    /\ \E order \in MultiOrders, ts \in Timestamps :
         ShardHandled(order, ts, handle_event(shard, order, ts))
    /\ UNCHANGED <<harness, router, walfile, riskVars, batchVars, bookVars, engineVars>>

MultiCancelOrder ==
    /\ MultiCanHandle
    /\ \E order_id \in 1..MaxMultiSeq - 1, ts \in Timestamps :
         ShardHandled(CancelOrder(0, 1, 1, order_id), ts,
                      handle_event(shard, CancelOrder(0, 1, 1, order_id), ts))
    /\ UNCHANGED <<harness, router, walfile, riskVars, batchVars, bookVars, engineVars>>

\* the process stops and a new shard is built from the snapshot of the old one
MultiRestore ==
    /\ harness = "EngineShardMulti"
    /\ ~hung
    /\ shard_last.op = "handle_event"
    /\ shard.engine_seq = MaxMultiSeq
    /\ shard' = restore(shard_snapshot(shard), MultiMarkets, shard.wal, RiskStateNew)
    /\ shard_last' = ShardLast("restore", [kind |-> "none"], 0, shard, <<>>, TRUE)
    /\ UNCHANGED <<harness, router, walfile, riskVars, batchVars, bookVars, engineVars, hung>>

\* bin/replay.rs, line 50: the envelopes of the log the tool hands to the shard
ReplayedKinds == {"NewOrder", "CancelOrder", "PriceUpdate", "FundingUpdate"}

Replayed(s, hang) == [shard |-> s, hang |-> hang]

\* bin/replay.rs, lines 48-53: every input envelope of the log is handled
\* again, whatever its engine_seq; the result of handle_event is dropped
RECURSIVE ReplayEvents(_, _)
ReplayHandled(r, events) ==
    IF r.hang THEN Replayed(r.shard, TRUE) ELSE ReplayEvents(r.shard, events)

ReplayEvents(s, events) ==
    IF events = <<>> THEN Replayed(s, FALSE)
    ELSE IF Head(events).event.kind \in ReplayedKinds
         THEN ReplayHandled(handle_event(s, Head(events).event, Head(events).ts),
                            Tail(events))
         ELSE ReplayEvents(s, Tail(events))

\* bin/replay.rs main: a shard restored from the snapshot, or a new one when
\* there is no snapshot, writing to a log of its own, handles the events
replay(snap, markets, events) ==
    IF snap = NoneStr
    THEN ReplayEvents(EngineShardNew(0, markets, <<>>, RiskStateNew), events)
    ELSE ReplayEvents(restore(snap[1].state, markets, <<>>, RiskStateNew), events)

\* SnapshotStore::build
snapshot_build(shard_id, last_seq, state) ==
    [meta |-> [version |-> 1, shard_id |-> shard_id, last_seq |-> last_seq], state |-> state]

MultiReplayed(r) ==
    /\ shard' = r.shard
    /\ hung' = r.hang
    /\ shard_last' = ShardLast("replay", [kind |-> "none"], 0, shard, <<>>, ~r.hang)

\* the process is killed after an input; the replay tool is run on the log of
\* the shard with the snapshot taken before that input
MultiReplay ==
    /\ harness = "EngineShardMulti"
    /\ ~hung
    /\ shard_last.op = "handle_event"
    /\ shard.engine_seq < MaxMultiSeq
    /\ MultiReplayed(replay(Some(snapshot_build(shard_last.pre.shard_id,
                                                 shard_last.pre.engine_seq,
                                                 shard_snapshot(shard_last.pre))),
                            MultiMarkets, shard.wal))
    /\ UNCHANGED <<harness, router, walfile, riskVars, batchVars, bookVars, engineVars>>

MultiNext == MultiNewOrder \/ MultiCancelOrder \/ MultiRestore \/ MultiReplay

MultiInit ==
    /\ harness = "EngineShardMulti"
    /\ book = OrderBookNew
    /\ book_next = 1
    /\ book_last = BookIdle
    /\ engine = MatchingEngineNew
    /\ engine_last = EngineIdle
    /\ shard = MultiInitial
    /\ shard_last = ShardLast("none", [kind |-> "none"], 0, MultiInitial, <<>>, TRUE)
    /\ hung = FALSE
    /\ batch = BatchAuctionDefault
    /\ batch_last = BatchIdle
    /\ router = RouterIdle
    /\ walfile = WalFileNone
    /\ risk_engine = RiskStateNew
    /\ risk_last = RiskIdle

SpecMulti == MultiInit /\ [][MultiNext]_vars

\* ---------------------------------------------------------------------
\* Outputs of one handle_event
\* ---------------------------------------------------------------------
MultiReturned ==
    harness = "EngineShardMulti" /\ shard_last.op = "handle_event" /\ shard_last.returned

\* the place of an output kind in [OrderAck?][Fill*][BookDelta?]
OutputRank(envelope) ==
    CASE envelope.event.kind = "OrderAck" -> 1
      [] envelope.event.kind = "Fill" -> 2
      [] envelope.event.kind = "BookDelta" -> 3
      [] OTHER -> 0

OutputsOfKind(outputs, kind) == {i \in 1..Len(outputs) : outputs[i].event.kind = kind}

\* an order that rested before the call has priority over another for a taker
\* of the given side: a better price, or the same price and an earlier arrival
MakerBefore(b, taker_side, first_id, second_id) ==
    LET first == NodeById(b, first_id)
        second == NodeById(b, second_id)
    IN \/ (taker_side = "Buy" /\ first.price_ticks < second.price_ticks)
       \/ (taker_side = "Sell" /\ first.price_ticks > second.price_ticks)
       \/ (first.price_ticks = second.price_ticks /\ first.ingress_seq < second.ingress_seq)

\* the levels of one side of a book as a book delta shows them: best first,
\* BookDeltaDepth levels at most
ShowsTopOf(shown, levels, descending) ==
    /\ Len(shown) = MinOf(Cardinality(DOMAIN levels), BookDeltaDepth)
    /\ \A k \in 1..Len(shown) :
          /\ shown[k].price_ticks \in DOMAIN levels
          /\ shown[k].qty = levels[shown[k].price_ticks].total_qty
          /\ Cardinality({p \in DOMAIN levels :
                              IF descending THEN p > shown[k].price_ticks
                                            ELSE p < shown[k].price_ticks}) = k - 1

LastAccepted ==
    /\ MultiReturned
    /\ shard_last.event.kind = "NewOrder"
    /\ shard_last.outputs # <<>>
    /\ IsAck(shard_last.outputs[1], "Accepted")

LastMode == shard_last.pre.markets[shard_last.event.market_id].config.matching_mode

\* C14: the outputs of one handle_event are ordered [OrderAck?][Fill*]
\* [BookDelta?]: at most one OrderAck, first; then the fills in match order;
\* then at most one BookDelta, last. An accepted NewOrder of a Continuous
\* market ends with exactly one BookDelta showing the top (at most 10 levels a
\* side) of the book after matching; an accepted NewOrder of a Batch market
\* emits only the OrderAck; every output carries the engine_seq of its input.
C14_OutputOrder ==
    /\ MultiReturned =>
          /\ \A i \in 1..Len(shard_last.outputs) : OutputRank(shard_last.outputs[i]) > 0
          /\ \A i, j \in 1..Len(shard_last.outputs) :
                i < j => OutputRank(shard_last.outputs[i]) <= OutputRank(shard_last.outputs[j])
          /\ Cardinality(OutputsOfKind(shard_last.outputs, "OrderAck")) <= 1
          /\ Cardinality(OutputsOfKind(shard_last.outputs, "BookDelta")) <= 1
          /\ \A i, j \in OutputsOfKind(shard_last.outputs, "Fill") :
                i < j => MakerBefore(PreBook, shard_last.event.side,
                                     shard_last.outputs[i].event.maker_order_id,
                                     shard_last.outputs[j].event.maker_order_id)
          /\ \A i \in 1..Len(shard_last.outputs) :
                /\ shard_last.outputs[i].engine_seq = shard_last.pre.engine_seq + 1
                /\ shard_last.outputs[i].event.engine_seq = shard_last.pre.engine_seq + 1
    /\ (LastAccepted /\ LastMode = "Continuous") =>
          LET last == shard_last.outputs[Len(shard_last.outputs)].event
          IN /\ last.kind = "BookDelta"
             /\ last.market_id = shard_last.event.market_id
             /\ ShowsTopOf(last.bids_levels, PostBook.bids, TRUE)
             /\ ShowsTopOf(last.asks_levels, PostBook.asks, FALSE)
    /\ (LastAccepted /\ LastMode = "Batch") => Len(shard_last.outputs) = 1

\* a taker of the Continuous market meets two makers of one level and rests
\* nothing: ack, two fills, book delta; and a Batch order was accepted before
C14_Witness ==
    /\ LastAccepted
    /\ LastMode = "Continuous"
    /\ Len(shard_last.outputs) = 4
    /\ shard_last.outputs[2].event.kind = "Fill"
    /\ shard_last.outputs[3].event.kind = "Fill"
    /\ shard_last.outputs[2].event.price_ticks = shard_last.outputs[3].event.price_ticks
    /\ shard_last.pre.markets[2].batch.pending # <<>>

\* ---------------------------------------------------------------------
\* BatchAuction::clear (matching/batch.rs)
\* ---------------------------------------------------------------------
MaxPending == 4

\* u64::MAX of lines 48-49, cut to 2^31 - 1; it is compared only with sums of
\* at most MaxPending quantities
U64Max == 2147483647

MaxOf(a, b) == IF a >= b THEN a ELSE b

\* demand_supply: the quantity willing to buy and to sell at a price
RECURSIVE demand_supply(_, _)
demand_supply(orders, price) ==
    IF orders = <<>> THEN <<0, 0>>
    ELSE LET order == Head(orders)
             rest == demand_supply(Tail(orders), price)
         IN IF order.side = "Buy"
            THEN IF order.order_type = "Market" \/ order.price_ticks >= price
                 THEN <<rest[1] + order.qty, rest[2]>> ELSE rest
            ELSE IF order.order_type = "Market" \/ order.price_ticks <= price
                 THEN <<rest[1], rest[2] + order.qty>> ELSE rest

\* lines 35-42: the limit prices of the pending non-Market orders and the mark
Candidates(orders, mark_price) ==
    {orders[i].price_ticks : i \in {j \in 1..Len(orders) : orders[j].order_type # "Market"}}
        \cup {mark_price}

Best(price, volume, imbalance, distance) ==
    [price |-> price, volume |-> volume, imbalance |-> imbalance, distance |-> distance]

\* a comparison that passes over the imbalance
Better_ignores_imbalance(best, price, volume, imbalance, distance) ==
    \/ volume > best.volume
    \/ (volume = best.volume /\ distance < best.distance)
    \/ (volume = best.volume /\ distance = best.distance /\ price < best.price)

\* lines 60-66: the candidate is better than the best one so far
Better(best, price, volume, imbalance, distance) ==
    \/ volume > best.volume
    \/ (volume = best.volume /\ imbalance < best.imbalance)
    \/ (volume = best.volume /\ imbalance = best.imbalance /\ distance < best.distance)
    \/ (volume = best.volume /\ imbalance = best.imbalance /\ distance = best.distance
          /\ price < best.price)

\* lines 52-71 for one candidate whose demand and supply are ds
Consider(best, price, mark_price, ds) ==
    LET volume == MinOf(ds[1], ds[2])
        imbalance == MaxOf(ds[1], ds[2]) - volume
        distance == IF price > mark_price THEN price - mark_price ELSE mark_price - price
    IN IF Better(best, price, volume, imbalance, distance)
       THEN Best(price, volume, imbalance, distance)
       ELSE best

\* lines 51-72: the loop over the sorted candidates
RECURSIVE SelectBest(_, _, _, _)
SelectBest(orders, mark_price, todo, best) ==
    IF todo = {} THEN best
    ELSE SelectBest(orders, mark_price, todo \ {SetMin(todo)},
                    Consider(best, SetMin(todo), mark_price,
                             demand_supply(orders, SetMin(todo))))

\* sort_by(ingress_seq), a stable sort: insertion behind the orders that do
\* not come later
RECURSIVE InsertByIngress(_, _)
InsertByIngress(sorted, order) ==
    IF sorted = <<>> THEN <<order>>
    ELSE IF Head(sorted).ingress_seq <= order.ingress_seq
         THEN <<Head(sorted)>> \o InsertByIngress(Tail(sorted), order)
         ELSE <<order>> \o sorted

RECURSIVE SortByIngress(_)
SortByIngress(orders) ==
    IF orders = <<>> THEN <<>>
    ELSE InsertByIngress(SortByIngress(SubSeq(orders, 1, Len(orders) - 1)),
                         orders[Len(orders)])

SideOrders(orders, side) == SortByIngress(SelectSeq(orders, LAMBDA o : o.side = side))

Allocation(sells, remaining_sells, fills) ==
    [sells |-> sells, remaining_sells |-> remaining_sells, fills |-> fills]

\* a trade priced at the limit of the sell order instead of the clearing price
Traded_at_sell_price(a, k, buy, price, trade_qty) ==
    IF trade_qty = 0 THEN a
    ELSE Allocation([a.sells EXCEPT ![k].qty = @ - trade_qty],
                    a.remaining_sells - trade_qty,
                    Append(a.fills, NewFill(a.sells[k].order_id, buy.order_id,
                                            a.sells[k].price_ticks, trade_qty)))

\* lines 98-121, one sell order met by a buy that may trade trade_qty with it
Traded(a, k, buy, price, trade_qty) ==
    IF trade_qty = 0 THEN a
    ELSE Allocation([a.sells EXCEPT ![k].qty = @ - trade_qty],
                    a.remaining_sells - trade_qty,
                    Append(a.fills, NewFill(a.sells[k].order_id, buy.order_id, price,
                                            trade_qty)))

\* lines 98-122: the inner loop over the sell orders for one buy
RECURSIVE AllocateBuy(_, _, _, _, _)
AllocateBuy(a, k, buy, tradable, price) ==
    IF k > Len(a.sells) \/ a.remaining_sells = 0 \/ tradable = 0 THEN a
    ELSE AllocateBuy(Traded(a, k, buy, price,
                            MinOf(MinOf(tradable, a.remaining_sells), a.sells[k].qty)),
                     k + 1, buy, tradable, price)

\* lines 92-123: the outer loop over the buy orders
RECURSIVE AllocateBuys(_, _, _, _, _)
AllocateBuys(a, buys, i, remaining_buys, price) ==
    IF i > Len(buys) \/ remaining_buys = 0 THEN a
    ELSE AllocateBuys(AllocateBuy(a, 1, buys[i], MinOf(buys[i].qty, remaining_buys), price),
                      buys, i + 1,
                      remaining_buys - MinOf(buys[i].qty, remaining_buys), price)

\* lines 125-130
BatchResting(orders) ==
    SelectSeq(orders, LAMBDA o : o.tif = "Gtc" /\ o.order_type # "Market")

\* what clear returns once the price is selected
Cleared(orders, best) ==
    [result |-> ClearingResult(best.price, best.volume),
     fills |-> AllocateBuys(Allocation(SideOrders(orders, "Sell"), best.volume, <<>>),
                            SideOrders(orders, "Buy"), 1, best.volume, best.price).fills,
     resting |-> BatchResting(orders)]

\* BatchAuction::clear on the pending orders; the auction is left empty
clear(orders, mark_price) ==
    IF orders = <<>>
    THEN [result |-> ClearingResult(mark_price, 0), fills |-> <<>>, resting |-> <<>>]
    ELSE Cleared(orders,
                 SelectBest(orders, mark_price, Candidates(orders, mark_price),
                            Best(mark_price, 0, U64Max, U64Max)))

\* orders a caller pushes: limit orders that may rest, market orders, limit
\* orders that do not rest, and an order that arrived before all the others
\* but is pushed late
BatchPrices == 1..MaxPrice + 1

PushedOrders(order_id) ==
    {IncomingOrder(order_id, 1, side, "Limit", "Gtc", price_ticks, qty, FALSE, order_id) :
        side \in Sides, price_ticks \in BatchPrices, qty \in 1..MaxQty}
    \cup
    {IncomingOrder(order_id, 1, side, "Market", "Ioc", 1, 1, FALSE, order_id) : side \in Sides}
    \cup
    {IncomingOrder(order_id, 1, side, "Limit", "Ioc", 1, 1, FALSE, order_id) : side \in Sides}
    \cup
    {IncomingOrder(order_id, 1, side, "Limit", "Gtc", 1, 1, FALSE, 0) : side \in Sides}

\* push on an auction that has not been cleared; clear leaves the auction as a
\* new one is, so a run ends with it
BatchPush ==
    /\ harness = "BatchAuction"
    /\ batch_last.op # "clear"
    /\ Len(batch.pending) < MaxPending
    /\ \E order \in PushedOrders(Len(batch.pending) + 1) : batch' = batch_push(batch, order)
    /\ batch_last' = BatchIdle
    /\ UNCHANGED <<harness, router, walfile, riskVars, bookVars, engineVars, shardVars, hung>>

BatchCleared(mark_price, r) ==
    /\ batch' = [batch EXCEPT !.pending = <<>>]
    /\ batch_last' = BatchLast("clear", batch.pending, mark_price, r.result, r.fills, r.resting)

BatchClear ==
    /\ harness = "BatchAuction"
    /\ batch_last.op # "clear"
    /\ \E mark_price \in BatchPrices : BatchCleared(mark_price, clear(batch.pending, mark_price))
    /\ UNCHANGED <<harness, router, walfile, riskVars, bookVars, engineVars, shardVars, hung>>

BatchNext == BatchPush \/ BatchClear
BatchInit == harness = "BatchAuction" /\ InitState
SpecBatch == BatchInit /\ [][BatchNext]_vars

\* ---------------------------------------------------------------------
\* The clearing price, the allocation and the fills of an auction
\* ---------------------------------------------------------------------
LastClear == harness = "BatchAuction" /\ batch_last.op = "clear"
LastClearOfOrders == LastClear /\ batch_last.pre # <<>>

\* the summed quantity of the orders of a sequence at the given positions
RECURSIVE QtyAt(_, _)
QtyAt(orders, positions) ==
    IF positions = {} THEN 0
    ELSE LET i == CHOOSE j \in positions : TRUE
         IN orders[i].qty + QtyAt(orders, positions \ {i})

\* buy(p) and sell(p): what the pending orders would buy and sell at price p
BuyAt(orders, p) ==
    QtyAt(orders, {i \in 1..Len(orders) :
                      /\ orders[i].side = "Buy"
                      /\ (orders[i].order_type = "Market" \/ orders[i].price_ticks >= p)})
SellAt(orders, p) ==
    QtyAt(orders, {i \in 1..Len(orders) :
                      /\ orders[i].side = "Sell"
                      /\ (orders[i].order_type = "Market" \/ orders[i].price_ticks <= p)})

VolumeAt(orders, p) == MinOf(BuyAt(orders, p), SellAt(orders, p))
ImbalanceAt(orders, p) == Abs(BuyAt(orders, p) - SellAt(orders, p))
DistanceAt(mark_price, p) == Abs(p - mark_price)

CandidatePrices(orders, mark_price) ==
    {o.price_ticks : o \in {orders[i] : i \in 1..Len(orders)} \ {o \in {orders[i] : i \in 1..Len(orders)} : o.order_type = "Market"}}
        \cup {mark_price}

\* price p is preferred to price q: greater volume, then smaller imbalance,
\* then smaller distance to the mark, then the lower price
Preferred(orders, mark_price, p, q) ==
    \/ VolumeAt(orders, p) > VolumeAt(orders, q)
    \/ /\ VolumeAt(orders, p) = VolumeAt(orders, q)
       /\ \/ ImbalanceAt(orders, p) < ImbalanceAt(orders, q)
          \/ /\ ImbalanceAt(orders, p) = ImbalanceAt(orders, q)
             /\ \/ DistanceAt(mark_price, p) < DistanceAt(mark_price, q)
                \/ /\ DistanceAt(mark_price, p) = DistanceAt(mark_price, q)
                   /\ p < q

\* C15: clear selects, among the candidate prices (the limit prices of the
\* pending non-Market orders and the mark price), the price of greatest
\* matched volume min(buy(p), sell(p)); ties go to the smallest imbalance,
\* then to the smallest |p - mark_price|, then to the lowest price; the
\* reported volume is the volume at the selected price.
C15_ClearingPriceSelection ==
    LastClearOfOrders =>
        /\ batch_last.result.price \in CandidatePrices(batch_last.pre, batch_last.mark_price)
        /\ batch_last.result.volume = VolumeAt(batch_last.pre, batch_last.result.price)
        /\ \A q \in CandidatePrices(batch_last.pre, batch_last.mark_price) \ {batch_last.result.price} :
              Preferred(batch_last.pre, batch_last.mark_price, batch_last.result.price, q)

\* two candidates match the same positive volume with the same imbalance and
\* the one nearer to the mark is selected, while a third one matches less
C15_Witness ==
    /\ LastClearOfOrders
    /\ batch_last.result.volume > 0
    /\ \E q \in CandidatePrices(batch_last.pre, batch_last.mark_price) :
          /\ q # batch_last.result.price
          /\ VolumeAt(batch_last.pre, q) = batch_last.result.volume
          /\ ImbalanceAt(batch_last.pre, q) = ImbalanceAt(batch_last.pre, batch_last.result.price)
          /\ DistanceAt(batch_last.mark_price, q) > DistanceAt(batch_last.mark_price, batch_last.result.price)
    /\ \E q \in CandidatePrices(batch_last.pre, batch_last.mark_price) :
          VolumeAt(batch_last.pre, q) < batch_last.result.volume

\* the pending order with the given id, and the summed quantity of the fills
\* that name an order as buyer or as seller
PendingById(order_id) ==
    CHOOSE o \in {batch_last.pre[i] : i \in 1..Len(batch_last.pre)} : o.order_id = order_id

FilledQty(fills, order_id) ==
    QtyAt(fills, {i \in 1..Len(fills) :
                     fills[i].taker_order_id = order_id \/ fills[i].maker_order_id = order_id})

\* the buy orders that come before a buy order: a smaller ingress_seq, or the
\* same one and pushed earlier
BuysBefore(order) ==
    {i \in 1..Len(batch_last.pre) :
        /\ batch_last.pre[i].side = "Buy"
        /\ \/ batch_last.pre[i].ingress_seq < order.ingress_seq
           \/ /\ batch_last.pre[i].ingress_seq = order.ingress_seq
              /\ batch_last.pre[i].order_id < order.order_id}

\* C16: clear serves buyers and sellers in ascending ingress_seq and gives
\* each order at most its own quantity: the fills naming a pending order (as
\* buyer or as seller) sum to no more than its qty, and a later buyer receives
\* nothing only when the quantities of the earlier buyers cover the clearing
\* volume.
C16_AllocationWithinQty ==
    LastClearOfOrders =>
        /\ \A i, j \in 1..Len(batch_last.fills) :
              i < j =>
                  LET first == batch_last.fills[i]
                      second == batch_last.fills[j]
                  IN /\ PendingById(first.taker_order_id).ingress_seq
                          <= PendingById(second.taker_order_id).ingress_seq
                     /\ first.taker_order_id = second.taker_order_id =>
                            PendingById(first.maker_order_id).ingress_seq
                                <= PendingById(second.maker_order_id).ingress_seq
        /\ \A k \in 1..Len(batch_last.pre) :
              FilledQty(batch_last.fills, batch_last.pre[k].order_id) <= batch_last.pre[k].qty
        /\ \A k \in 1..Len(batch_last.pre) :
              (batch_last.pre[k].side = "Buy"
                 /\ FilledQty(batch_last.fills, batch_last.pre[k].order_id) = 0)
                  => QtyAt(batch_last.pre, BuysBefore(batch_last.pre[k])) >= batch_last.result.volume

\* C17: for a non-empty pending set the fills clear returns all carry the
\* selected clearing price and their quantities sum to exactly the selected
\* volume; for an empty pending set clear returns price = mark_price and
\* volume = 0, no fills and no resting orders.
C17_FillsAtClearingPrice ==
    /\ LastClearOfOrders =>
          /\ \A i \in 1..Len(batch_last.fills) :
                batch_last.fills[i].price_ticks = batch_last.result.price
          /\ QtyAt(batch_last.fills, 1..Len(batch_last.fills)) = batch_last.result.volume
    /\ (LastClear /\ batch_last.pre = <<>>) =>
          /\ batch_last.result = ClearingResult(batch_last.mark_price, 0)
          /\ batch_last.fills = <<>>
          /\ batch_last.resting = <<>>

\* an auction clears a volume of several units in more than one fill, away
\* from the mark price and from the limit of a seller that trades
C17_Witness ==
    /\ LastClearOfOrders
    /\ Len(batch_last.fills) >= 2
    /\ batch_last.result.volume > Len(batch_last.fills)
    /\ batch_last.result.price # batch_last.mark_price
    /\ \E i \in 1..Len(batch_last.fills) :
          PendingById(batch_last.fills[i].maker_order_id).price_ticks # batch_last.result.price

\* ---------------------------------------------------------------------
\* Snapshot and restore
\* ---------------------------------------------------------------------
LastRestore == harness = "EngineShardMulti" /\ shard_last.op = "restore"

\* C18: snapshot and restore form a fixed point: for a shard state s reached
\* through handle_event, snapshot(restore(snapshot(s))) equals snapshot(s):
\* the same shard_id, engine_seq and next_order_id, the same resting-order
\* records of every market in the same order, and the same risk state.
C18_SnapshotRestoreFixedPoint ==
    LastRestore =>
        /\ shard_snapshot(shard).shard_id = shard_snapshot(shard_last.pre).shard_id
        /\ shard_snapshot(shard).engine_seq = shard_snapshot(shard_last.pre).engine_seq
        /\ shard_snapshot(shard).next_order_id = shard_snapshot(shard_last.pre).next_order_id
        /\ shard_snapshot(shard).orderbooks = shard_snapshot(shard_last.pre).orderbooks
        /\ shard_snapshot(shard).risk_state = shard_snapshot(shard_last.pre).risk_state

\* the restored shard had resting orders of both sides, a freed slot in the
\* order store of its book, and positions in its risk state
C18_Witness ==
    /\ LastRestore
    /\ Len(shard_snapshot(shard).orderbooks[1]) >= 2
    /\ shard_last.pre.markets[1].book.bids # EmptyMap
    /\ shard_last.pre.markets[1].book.asks # EmptyMap
    /\ shard_last.pre.markets[1].book.orders.len > Len(shard_snapshot(shard).orderbooks[1])
    /\ shard_last.pre.risk.subaccounts # EmptyMap

\* the order ids of a price level of a book from the head of its queue on
RECURSIVE QueueFrom(_, _)
QueueFrom(b, idx) ==
    IF idx = None THEN <<>>
    ELSE <<[order_id |-> b.orders.entries[idx].order_id,
            remaining |-> b.orders.entries[idx].remaining]>>
         \o QueueFrom(b, b.orders.entries[idx].next)

\* the queue of orders a side of a book holds at every price
LevelQueues(b, side) ==
    [price_ticks \in Prices |->
        IF price_ticks \in DOMAIN SideMap(b, side)
        THEN QueueFrom(b, SideMap(b, side)[price_ticks].head)
        ELSE <<>>]

\* C19: restore preserves time priority: after restore(snapshot(s)) every
\* price level of every book holds the same orders with the same remaining
\* quantities in the same queue order as in s, also when orders were
\* cancelled or filled and later orders rested before the snapshot.
C19_RestoreKeepsQueueOrder ==
    LastRestore =>
        \A market_id \in DOMAIN shard_last.pre.markets :
            \A side \in Sides :
                LevelQueues(shard.markets[market_id].book, side)
                    = LevelQueues(shard_last.pre.markets[market_id].book, side)

\* ---------------------------------------------------------------------
\* Recovery by replay
\* ---------------------------------------------------------------------
LastReplay == harness = "EngineShardMulti" /\ shard_last.op = "replay" /\ shard_last.returned

\* C21: recovery reproduces the uninterrupted state: from a snapshot taken
\* after input last_seq the replay re-applies exactly the log's input events
\* with engine_seq > last_seq, and the resulting EngineState (engine_seq,
\* next_order_id, resting orders, risk state) equals that of the shard that
\* handled all inputs without interruption.
C21_ReplayReproducesState ==
    LastReplay =>
        /\ shard_snapshot(shard).engine_seq = shard_snapshot(shard_last.pre).engine_seq
        /\ shard_snapshot(shard).next_order_id = shard_snapshot(shard_last.pre).next_order_id
        /\ shard_snapshot(shard).orderbooks = shard_snapshot(shard_last.pre).orderbooks
        /\ shard_snapshot(shard).risk_state = shard_snapshot(shard_last.pre).risk_state

\* ---------------------------------------------------------------------
\* engine::router::run_router (router.rs 14-133): the router task, the
\* market-update task and one task per shard, over the bus and the WAL file
\* ---------------------------------------------------------------------
MaxBusMessages == 3
MaxMarketUpdates == 1
MaxFaults == 1

\* settings.shard_count shards, numbered from 0
ShardIds == {0, 1}
ShardCount == Cardinality(ShardIds)

\* settings.persistence.wal_path
WalPath == "wal_path"

\* settings.markets: one continuous market per id
RouterMarketIds == {1, 2}
RouterMarket(market_id) == [MultiMarket EXCEPT !.market_id = market_id]
RouterMarkets == <<RouterMarket(1), RouterMarket(2)>>

\* lines 42-46: the markets a shard is created with
shard_markets(shard_id) ==
    SelectSeq(RouterMarkets, LAMBDA m : m.market_id % ShardCount = shard_id)

\* line 47: the path each shard opens its Wal on
shard_wal_path(shard_id) == WalPath

\* what the bus delivers: bytes that are no InputEvent, an InputEvent without
\* payload, or an InputEvent with one of the input events
Malformed == [input |-> NoneStr]
InputEvent(payload) == [input |-> Some([payload |-> payload])]
RouterEvents(request_id) ==
    {NewOrder(request_id, 1, 1, "Buy", "Limit", "Gtc", 1, 1, FALSE),
     CancelOrder(request_id, 2, 1, 1)}
BusPayloads(request_id) ==
    {Malformed, InputEvent(NoneStr)}
    \cup {InputEvent(Some(event)) : event \in RouterEvents(request_id)}
BusMessage(id, payload) == [id |-> id, payload |-> payload]

\* market-config updates the registry reports
RouterMarketUpdates ==
    {[RouterMarket(market_id) EXCEPT !.max_open_orders_per_subaccount = 1] :
        market_id \in RouterMarketIds}

\* lines 135-144: decode_input
decode_input(payload) ==
    IF payload.input = NoneStr THEN NoneStr
    ELSE IF payload.input[1].payload = NoneStr THEN NoneStr
    ELSE IF payload.input[1].payload[1].kind \in InputKinds
         THEN payload.input[1].payload
         ELSE NoneStr

\* lines 146-163: encode_output
OutputKinds == {"OrderAck", "Fill", "BookDelta", "SettlementBatch"}
encode_output(envelope) ==
    IF envelope.event.kind \in OutputKinds
    THEN [payload |-> Some(envelope.event)]
    ELSE [payload |-> NoneStr]

\* lines 165-173: market_id_for_event
market_id_for_event(event) ==
    IF event.kind \in InputKinds THEN Some(event.market_id) ELSE NoneStr

\* a router that hands every event to the first shard
shard_for_first(market_id, shard_count) == 0

\* lines 91 and 105: the shard an event of a market goes to
shard_for(market_id, shard_count) == market_id % shard_count

\* the ShardMsg enum, lines 33-36
ShardMsgEvent(event, ts, message) ==
    [kind |-> "Event", event |-> event, ts |-> ts, message |-> message]
ShardMsgMarketUpdate(market) == [kind |-> "MarketUpdate", market |-> market]

\* a shard task waiting in rx.recv()
TaskIdle ==
    [pc |-> "recv", msg |-> NoneStr, outputs |-> <<>>, logged |-> 0, len_written |-> FALSE,
     sent |-> 0, published |-> 0]

\* what bus.ack is called with, and what had happened for the message by then
Acked(id, handled, outputs, published) ==
    [id |-> id, handled |-> handled, outputs |-> outputs, published |-> published]

\* lines 38-77 up to the spawn: the shards, their channels and their tasks
RouterStarted ==
    [running |-> TRUE, delivered |-> <<>>, acked |-> {}, failed |-> {}, published |-> {},
     updates |-> 0, faults |-> 0,
     chans |-> [shard_id \in ShardIds |-> <<>>],
     shards |-> [shard_id \in ShardIds |->
                   EngineShardNew(shard_id, shard_markets(shard_id), <<>>, RiskStateNew)],
     tasks |-> [shard_id \in ShardIds |-> TaskIdle],
     handled |-> [shard_id \in ShardIds |-> <<>>],
     files |-> [path \in {WalPath} |-> <<>>]]

\* lines 100-125: the router task's loop body for one bus message
Forward(rt, message, ts) ==
    LET decoded == decode_input(message.payload)
        found == market_id_for_event(decoded[1])
        market_id == IF found = NoneStr THEN 0 ELSE found[1]
        shard_id == shard_for(market_id, ShardCount)
    IN IF decoded = NoneStr
       THEN [rt EXCEPT !.acked = @ \cup {Acked(message.id, FALSE, 0, 0)}]
       ELSE IF shard_id \in DOMAIN rt.chans
            THEN [rt EXCEPT !.chans[shard_id] =
                               Append(@, ShardMsgEvent(decoded[1], ts, message))]
            ELSE [rt EXCEPT !.acked = @ \cup {Acked(message.id, FALSE, 0, 0)}]

\* the bus delivers its next message to the router task
RouterReceive ==
    /\ harness = "Router"
    /\ Len(router.delivered) < MaxBusMessages
    /\ \E payload \in BusPayloads(Len(router.delivered) + 1), ts \in Timestamps :
         LET message == BusMessage(Len(router.delivered) + 1, payload)
         IN router' = Forward([router EXCEPT !.delivered = Append(@, message)], message, ts)
    /\ UNCHANGED <<harness, walfile, riskVars, batchVars, bookVars, engineVars, shardVars, hung>>

\* lines 88-95: the market-update task hands an update to the owning shard
MarketWatch ==
    /\ harness = "Router"
    /\ router.updates < MaxMarketUpdates
    /\ \E market \in RouterMarketUpdates :
         router' = [router EXCEPT
                      !.updates = @ + 1,
                      !.chans[shard_for(market.market_id, ShardCount)] =
                          Append(@, ShardMsgMarketUpdate(market))]
    /\ UNCHANGED <<harness, walfile, riskVars, batchVars, bookVars, engineVars, shardVars, hung>>

\* where a task stands once the statements that touch nothing shared are done:
\* the output loop of handle_event ends, the publish loop ends
TaskSettled(task) ==
    IF task.pc = "dispatched" /\ task.logged = Len(task.outputs)
    THEN IF task.outputs = <<>> THEN [task EXCEPT !.pc = "ack"]
         ELSE [task EXCEPT !.pc = "publish"]
    ELSE IF task.pc = "publish" /\ task.sent = Len(task.outputs)
         THEN [task EXCEPT !.pc = "ack"]
         ELSE task

\* lines 56-58 and 70-72: a shard task takes the next message of its channel;
\* a market update is applied, an event enters handle_event
TaskReceived(rt, shard_id, msg) ==
    IF msg.kind = "MarketUpdate"
    THEN [rt EXCEPT !.chans[shard_id] = Tail(@),
                    !.shards[shard_id] = upsert_market(@, msg.market)]
    ELSE LET r == handle_event_step("called", rt.shards[shard_id], msg.event, msg.ts, <<>>, 0)
         IN [rt EXCEPT !.chans[shard_id] = Tail(@),
                       !.shards[shard_id] = r.shard,
                       !.handled[shard_id] = Append(@, msg.message.id),
                       !.tasks[shard_id] = [TaskIdle EXCEPT !.pc = r.pc, !.msg = Some(msg)]]

ShardTaskReceive ==
    /\ harness = "Router"
    /\ \E shard_id \in ShardIds :
         /\ router.tasks[shard_id].pc = "recv"
         /\ router.chans[shard_id] # <<>>
         /\ router' = TaskReceived(router, shard_id, Head(router.chans[shard_id]))
    /\ UNCHANGED <<harness, walfile, riskVars, batchVars, bookVars, engineVars, shardVars, hung>>

\* one write_all of Wal::append (wal.rs 21-22) on the file at path
Chunk(writer, part, envelope) == [writer |-> writer, part |-> part, envelope |-> envelope]

\* the task after lines 191-203 of handle_event: the event is dispatched
TaskDispatched(task, r) ==
    TaskSettled([task EXCEPT !.pc = r.pc, !.outputs = r.outputs])

\* wal.append inside handle_event (shard.rs 189 and 205): the length prefix, then
\* the payload; the shard goes on once both are written
TaskWritten(rt, shard_id, task, r) ==
    LET envelope == r.shard.wal[Len(r.shard.wal)]
        path == shard_wal_path(shard_id)
    IN IF ~task.len_written
       THEN [rt EXCEPT !.files[path] = Append(@, Chunk(shard_id, "len", envelope)),
                       !.tasks[shard_id].len_written = TRUE]
       ELSE IF r.pc = "logged"
            THEN LET d == handle_event_step("logged", r.shard, task.msg[1].event,
                                            task.msg[1].ts, <<>>, 0)
                 IN [rt EXCEPT !.files[path] = Append(@, Chunk(shard_id, "payload", envelope)),
                               !.shards[shard_id] = d.shard,
                               !.tasks[shard_id] =
                                   TaskDispatched([task EXCEPT !.len_written = FALSE], d)]
            ELSE [rt EXCEPT !.files[path] = Append(@, Chunk(shard_id, "payload", envelope)),
                            !.shards[shard_id] = r.shard,
                            !.tasks[shard_id] =
                                TaskSettled([task EXCEPT !.logged = @ + 1,
                                                         !.len_written = FALSE])]

\* a write fails: handle_event returns the error, the task takes lines 66-68
\* and acknowledges nothing
TaskFailed(rt, shard_id, task) ==
    [rt EXCEPT !.faults = @ + 1,
               !.failed = @ \cup {task.msg[1].message.id},
               !.tasks[shard_id] = TaskIdle]

ShardTaskWrite ==
    /\ harness = "Router"
    /\ \E shard_id \in ShardIds, ok \in BOOLEAN :
         /\ router.tasks[shard_id].pc \in {"sequenced", "dispatched"}
         /\ ok \/ router.faults < MaxFaults
         /\ router' =
              IF ok
              THEN TaskWritten(router, shard_id, router.tasks[shard_id],
                               handle_event_step(router.tasks[shard_id].pc,
                                                 router.shards[shard_id],
                                                 router.tasks[shard_id].msg[1].event,
                                                 router.tasks[shard_id].msg[1].ts,
                                                 router.tasks[shard_id].outputs,
                                                 router.tasks[shard_id].logged))
              ELSE TaskFailed(router, shard_id, router.tasks[shard_id])
    /\ UNCHANGED <<harness, walfile, riskVars, batchVars, bookVars, engineVars, shardVars, hung>>

\* what the output subject of the bus holds: the n-th output of a bus message
Published(id, n, output) == [id |-> id, n |-> n, output |-> output]

\* lines 60-63: one turn of the publish loop; the result of publish is dropped
TaskPublished(rt, shard_id, task, ok) ==
    IF ok
    THEN [rt EXCEPT !.published = @ \cup {Published(task.msg[1].message.id, task.sent + 1,
                                                       encode_output(task.outputs[task.sent + 1]))},
                    !.tasks[shard_id] =
                        TaskSettled([task EXCEPT !.sent = @ + 1, !.published = @ + 1])]
    ELSE [rt EXCEPT !.faults = @ + 1,
                    !.tasks[shard_id] = TaskSettled([task EXCEPT !.sent = @ + 1])]

ShardTaskPublish ==
    /\ harness = "Router"
    /\ \E shard_id \in ShardIds, ok \in BOOLEAN :
         /\ router.tasks[shard_id].pc = "publish"
         /\ ok \/ router.faults < MaxFaults
         /\ router' = TaskPublished(router, shard_id, router.tasks[shard_id], ok)
    /\ UNCHANGED <<harness, walfile, riskVars, batchVars, bookVars, engineVars, shardVars, hung>>

\* line 64: the message is acknowledged
TaskAcked(rt, shard_id, task) ==
    [rt EXCEPT !.acked = @ \cup {Acked(task.msg[1].message.id, TRUE, Len(task.outputs),
                                       task.published)},
               !.tasks[shard_id] = TaskIdle]

ShardTaskAck ==
    /\ harness = "Router"
    /\ \E shard_id \in ShardIds :
         /\ router.tasks[shard_id].pc = "ack"
         /\ router' = TaskAcked(router, shard_id, router.tasks[shard_id])
    /\ UNCHANGED <<harness, walfile, riskVars, batchVars, bookVars, engineVars, shardVars, hung>>

RouterNext ==
    \/ RouterReceive
    \/ MarketWatch
    \/ ShardTaskReceive
    \/ ShardTaskWrite
    \/ ShardTaskPublish
    \/ ShardTaskAck

RouterInit ==
    /\ harness = "Router"
    /\ book = OrderBookNew
    /\ book_next = 1
    /\ book_last = BookIdle
    /\ engine = MatchingEngineNew
    /\ engine_last = EngineIdle
    /\ shard = ShardInitial
    /\ shard_last = ShardIdle
    /\ hung = FALSE
    /\ batch = BatchAuctionDefault
    /\ batch_last = BatchIdle
    /\ router = RouterStarted
    /\ walfile = WalFileNone
    /\ risk_engine = RiskStateNew
    /\ risk_last = RiskIdle
SpecRouter == RouterInit /\ [][RouterNext]_vars

\* ---------------------------------------------------------------------
\* Routing
\* ---------------------------------------------------------------------

\* the ids of the delivered bus messages that decode to an event of a market
\* of the shard, in delivery order
RoutedIds(shard_id) ==
    LET mine == SelectSeq(router.delivered,
                          LAMBDA m : /\ m.payload.input # NoneStr
                                     /\ m.payload.input[1].payload # NoneStr
                                     /\ m.payload.input[1].payload[1].market_id % ShardCount
                                          = shard_id)
    IN [k \in 1..Len(mine) |-> mine[k].id]

\* the ids of the events waiting in the channel of the shard, oldest first
QueuedIds(shard_id) ==
    LET events == SelectSeq(router.chans[shard_id], LAMBDA msg : msg.kind = "Event")
    IN [k \in 1..Len(events) |-> events[k].message.id]

\* the shard task holds no message, or the one it took last
OneAtATime(shard_id) ==
    \/ router.tasks[shard_id].msg = NoneStr
    \/ /\ router.handled[shard_id] # <<>>
       /\ router.tasks[shard_id].msg[1].message.id
            = router.handled[shard_id][Len(router.handled[shard_id])]
       /\ router.tasks[shard_id].msg[1].event
            = router.delivered[router.tasks[shard_id].msg[1].message.id].payload.input[1].payload[1]

\* C22: every decoded input event of market m reaches the shard m mod
\* shard_count and no other, and each shard handles its events one at a time
\* in the order the bus delivered them, under every interleaving of the router
\* task, the shard tasks and the market-config updates: what a shard has
\* handled followed by what waits in its channel is exactly the delivered
\* events of its markets, in delivery order
C22_RoutedInDeliveryOrder ==
    harness = "Router" =>
        \A shard_id \in ShardIds :
            /\ router.handled[shard_id] \o QueuedIds(shard_id) = RoutedIds(shard_id)
            /\ OneAtATime(shard_id)

\* both shards handled events, one of them two, around a market-config update
C22_Witness ==
    /\ harness = "Router"
    /\ router.updates = 1
    /\ Len(router.handled[1]) = 2
    /\ Len(router.handled[0]) = 1
    /\ router.handled[0][1] = 2

\* ---------------------------------------------------------------------
\* Acknowledgement
\* ---------------------------------------------------------------------

\* the delivered bus message decodes to an input event
Decodes(id) == decode_input(router.delivered[id].payload) # NoneStr

\* C23: a bus message (one that decodes to an input event) is acknowledged only
\* after handle_event for it has succeeded and every output envelope it
\* returned has been published; a message whose handle_event returned an error
\* is never acknowledged
C23_AckAfterHandledAndPublished ==
    harness = "Router" =>
        /\ \A a \in router.acked :
              Decodes(a.id) => a.handled /\ a.published = a.outputs
        /\ \A a \in router.acked : a.id \notin router.failed

\* ---------------------------------------------------------------------
\* The WAL file of a shard
\* ---------------------------------------------------------------------

\* the shards that have written to the file at path
Writers(path) == {router.files[path][k].writer : k \in 1..Len(router.files[path])}

\* the file is whole records: each length prefix is followed by the payload of
\* the same envelope from the same writer; the last record may still be
\* waiting for its payload while its writer is inside wal.append
WholeRecords(chunks) ==
    \A k \in 1..Len(chunks) :
        IF k % 2 = 1
        THEN /\ chunks[k].part = "len"
             /\ k < Len(chunks) \/ router.tasks[chunks[k].writer].len_written
        ELSE /\ chunks[k].part = "payload"
             /\ chunks[k].writer = chunks[k - 1].writer
             /\ chunks[k].envelope = chunks[k - 1].envelope

\* C24: each shard is the only writer of its WAL file: no two shard tasks
\* append to the same file, and each WAL file is a sequence of whole
\* length-prefixed records of a single shard
C24_SingleWriterPerWal ==
    harness = "Router" =>
        \A path \in DOMAIN router.files :
            /\ Cardinality(Writers(path)) <= 1
            /\ WholeRecords(router.files[path])

\* ---------------------------------------------------------------------
\* persistence::wal::Wal (wal.rs): the file as a sequence of bytes
\* ---------------------------------------------------------------------
MaxWalRecords == 2

\* u32::to_le_bytes and u32::from_le_bytes (wal.rs 20-21, 38)
to_le_bytes(n) == [k \in 1..4 |-> (n \div (256 ^ (k - 1))) % 256]
from_le_bytes(bytes) == bytes[1] + 256 * bytes[2] + 65536 * bytes[3] + 16777216 * bytes[4]

\* bincode::serialize(event) (wal.rs 19): the fields of the envelope in order,
\* the variant index in front of the event's fields; each integer is written
\* as one byte here, where bincode writes eight (four for the variant index)
serialize(envelope) ==
    IF envelope.event.kind = "PriceUpdate"
    THEN <<envelope.shard_id, envelope.engine_seq, 2, envelope.event.market_id,
           envelope.event.mark_price, envelope.event.index_price, envelope.event.ts,
           envelope.ts>>
    ELSE <<envelope.shard_id, envelope.engine_seq, 3, envelope.event.market_id,
           envelope.event.funding_index, envelope.event.ts, envelope.ts>>

\* bincode::deserialize(&buf) (wal.rs 41): None stands for the error
deserialize(buf) ==
    IF Len(buf) >= 8 /\ buf[3] = 2
    THEN Some(EventEnvelope(buf[1], buf[2],
                            [kind |-> "PriceUpdate", market_id |-> buf[4],
                             mark_price |-> buf[5], index_price |-> buf[6], ts |-> buf[7]],
                            buf[8]))
    ELSE IF Len(buf) >= 7 /\ buf[3] = 3
         THEN Some(EventEnvelope(buf[1], buf[2], FundingUpdate(buf[4], buf[5], buf[6]),
                                 buf[7]))
         ELSE NoneStr

\* the bytes Wal::append writes for an envelope (wal.rs 18-25)
WalRecord(envelope) == to_le_bytes(Len(serialize(envelope))) \o serialize(envelope)
wal_file_append(bytes, envelope) == bytes \o WalRecord(envelope)

\* what Wal::load returns: Ok(events) or Err
Loaded(ok, events) == [ok |-> ok, events |-> events]

\* the loop of Wal::load (wal.rs 33-43) over the bytes not yet read
RECURSIVE LoadLoop(_, _)
LoadPayload(rest, len, events) ==
    IF Len(rest) < len THEN Loaded(FALSE, <<>>)
    ELSE IF deserialize(SubSeq(rest, 1, len)) = NoneStr THEN Loaded(FALSE, <<>>)
    ELSE LoadLoop(SubSeq(rest, len + 1, Len(rest)),
                  Append(events, deserialize(SubSeq(rest, 1, len))[1]))
LoadLoop(bytes, events) ==
    IF Len(bytes) < 4 THEN Loaded(TRUE, events)
    ELSE LoadPayload(SubSeq(bytes, 5, Len(bytes)), from_le_bytes(SubSeq(bytes, 1, 4)), events)

\* Wal::load (wal.rs 27-45); file is None when nothing exists at the path
wal_load(file) ==
    IF file = NoneStr THEN Loaded(TRUE, <<>>) ELSE LoadLoop(file[1], <<>>)

\* the envelopes a shard appends next
WalEnvelopes ==
    {EventEnvelope(0, Len(walfile.appended) + 1, PriceUpdate(1, mark_price, 1), 1) :
        mark_price \in Prices}
    \cup {EventEnvelope(0, Len(walfile.appended) + 1, FundingUpdate(1, 1, 1), 1)}

\* Wal::open (wal.rs 13-16) creates the file
WalOpen ==
    /\ harness = "Wal"
    /\ walfile.file = NoneStr
    /\ walfile' = [walfile EXCEPT !.file = Some(<<>>), !.loaded = NoneStr]
    /\ UNCHANGED <<harness, router, riskVars, batchVars, bookVars, engineVars, shardVars, hung>>

\* Wal::append runs to its end
WalAppend ==
    /\ harness = "Wal"
    /\ walfile.file # NoneStr
    /\ ~walfile.torn
    /\ Len(walfile.appended) < MaxWalRecords
    /\ \E envelope \in WalEnvelopes :
         walfile' = [walfile EXCEPT !.file = Some(wal_file_append(@[1], envelope)),
                                    !.appended = Append(@, envelope),
                                    !.loaded = NoneStr]
    /\ UNCHANGED <<harness, router, riskVars, batchVars, bookVars, engineVars, shardVars, hung>>

\* the process dies inside Wal::append: only the first written bytes of the
\* record reach the file
WalAppendTorn ==
    /\ harness = "Wal"
    /\ walfile.file # NoneStr
    /\ ~walfile.torn
    /\ Len(walfile.appended) < MaxWalRecords
    /\ \E envelope \in WalEnvelopes : \E written \in 1..Len(WalRecord(envelope)) - 1 :
         walfile' = [walfile EXCEPT
                       !.file = Some(@[1] \o SubSeq(WalRecord(envelope), 1, written)),
                       !.torn = TRUE,
                       !.loaded = NoneStr]
    /\ UNCHANGED <<harness, router, riskVars, batchVars, bookVars, engineVars, shardVars, hung>>

\* Wal::load reads the file
WalLoad ==
    /\ harness = "Wal"
    /\ walfile.loaded = NoneStr
    /\ walfile' = [walfile EXCEPT !.loaded = Some(wal_load(walfile.file))]
    /\ UNCHANGED <<harness, router, riskVars, batchVars, bookVars, engineVars, shardVars, hung>>

WalNext == WalOpen \/ WalAppend \/ WalAppendTorn \/ WalLoad
WalInit == harness = "Wal" /\ InitState
SpecWal == WalInit /\ [][WalNext]_vars

\* C25: Wal::load returns exactly the appended envelopes, in the order they
\* were appended, when the file is a sequence of whole records; when the file
\* ends part-way through a record, inside the length prefix or inside the
\* payload, load fails with an error instead of returning a shortened list
C25_LoadWholeOrError ==
    harness = "Wal" /\ walfile.loaded # NoneStr =>
        IF walfile.torn
        THEN ~walfile.loaded[1].ok
        ELSE walfile.loaded[1] = Loaded(TRUE, walfile.appended)

\* ---------------------------------------------------------------------
\* Cancel
\* ---------------------------------------------------------------------
BookCancelled == harness = "OrderBook" /\ book_last.op = "cancel"
ShardCancelled ==
    /\ harness = "EngineShard"
    /\ shard_last.op = "handle_event"
    /\ shard_last.event.kind = "CancelOrder"
    /\ shard_last.returned

\* the total a side of a book shows at a price
LevelTotal(b, side, price_ticks) ==
    IF price_ticks \in DOMAIN SideMap(b, side)
    THEN SideMap(b, side)[price_ticks].total_qty
    ELSE 0

\* the node of a resting order
RestingOrder(b, order_id) == b.orders.entries[b.order_index[order_id]]

\* post is pre without the resting order: the order is gone, its level shows
\* its remaining quantity less, every other level shows what it showed, and
\* every queue is the queue it was without that order
RemovedExactly(pre, post, order_id) ==
    /\ ~has_order(post, order_id)
    /\ DOMAIN post.order_index = DOMAIN pre.order_index \ {order_id}
    /\ \A side \in Sides, price_ticks \in Prices :
          /\ LevelTotal(post, side, price_ticks) =
                LevelTotal(pre, side, price_ticks)
                - (IF /\ side = RestingOrder(pre, order_id).side
                      /\ price_ticks = RestingOrder(pre, order_id).price_ticks
                   THEN RestingOrder(pre, order_id).remaining
                   ELSE 0)
          /\ LevelQueues(post, side)[price_ticks] =
                SelectSeq(LevelQueues(pre, side)[price_ticks],
                          LAMBDA o : o.order_id # order_id)

\* the book of the market a CancelOrder names held the order before the call
CancelHits(s, event) ==
    /\ event.order_id # None
    /\ event.market_id \in DOMAIN s.markets
    /\ has_order(s.markets[event.market_id].book, event.order_id)

\* C26: OrderBook.cancel(id) removes exactly that order: afterwards
\* has_order(id) is false, the order's level total is lower by its remaining
\* quantity, and every other resting order keeps its price, remaining quantity
\* and relative queue position; cancel of an id that is not resting returns
\* false and changes nothing. Through the shard a successful CancelOrder emits
\* exactly one BookDelta and an unsuccessful one emits no output.
C26_CancelRemovesExactlyThatOrder ==
    /\ BookCancelled =>
          IF has_order(book_last.pre, book_last.incoming.order_id)
          THEN /\ book_last.ok
               /\ RemovedExactly(book_last.pre, book, book_last.incoming.order_id)
          ELSE /\ ~book_last.ok
               /\ book = book_last.pre
    /\ ShardCancelled =>
          IF CancelHits(shard_last.pre, shard_last.event)
          THEN /\ Len(shard_last.outputs) = 1
               /\ shard_last.outputs[1].event.kind = "BookDelta"
               /\ RemovedExactly(shard_last.pre.markets[shard_last.event.market_id].book,
                                 shard.markets[shard_last.event.market_id].book,
                                 shard_last.event.order_id)
          ELSE /\ shard_last.outputs = <<>>
               /\ shard.markets = shard_last.pre.markets

\* the book cancelled the second of three orders queued at one price
C26_Witness ==
    /\ BookCancelled
    /\ book_last.ok
    /\ \E side \in Sides, price_ticks \in Prices :
          /\ Len(LevelQueues(book_last.pre, side)[price_ticks]) = 3
          /\ LevelQueues(book_last.pre, side)[price_ticks][2].order_id
                = book_last.incoming.order_id

\* ---------------------------------------------------------------------
\* risk::RiskEngine on its own: marks, fills and validate_order
\* ---------------------------------------------------------------------
MaxRiskFills == 2

RiskPrices == 1..MaxPrice + 1
RiskQuantities == 1..MaxQty + 1

\* the fills applied so far: one position update each
RiskFills ==
    LET RECURSIVE Count(_)
        Count(todo) ==
            IF todo = {} THEN 0
            ELSE LET subaccount_id == CHOOSE s \in todo : TRUE
                 IN Abs(PositionSize(risk_engine, subaccount_id, ShardMarket.market_id))
                    + Count(todo \ {subaccount_id})
    IN Count(DOMAIN risk_engine.subaccounts)

\* update_mark(market_id, mark)
RiskUpdateMark ==
    /\ harness = "RiskEngine"
    /\ \E mark \in RiskPrices :
         risk_engine' = update_mark(risk_engine, ShardMarket.market_id, mark)
    /\ risk_last' = RiskIdle
    /\ UNCHANGED <<harness, router, walfile, batchVars, bookVars, engineVars, shardVars, hung>>

\* apply_fill(market, subaccount_id, side, price_ticks, 1, 0)
RiskApplyFill ==
    /\ harness = "RiskEngine"
    /\ RiskFills < MaxRiskFills
    /\ \E subaccount_id \in SubaccountIds, side \in Sides :
         risk_engine' = apply_fill(risk_engine, ShardMarket, subaccount_id, side, 1, 1, 0)
    /\ risk_last' = RiskIdle
    /\ UNCHANGED <<harness, router, walfile, batchVars, bookVars, engineVars, shardVars, hung>>

\* validate_order(market, subaccount_id, side, order_type, price_ticks, qty, reduce_only)
RiskValidate ==
    /\ harness = "RiskEngine"
    /\ risk_last = RiskIdle
    /\ \E subaccount_id \in SubaccountIds, side \in Sides, order_type \in OrderTypes,
          price_ticks \in RiskPrices, qty \in RiskQuantities, reduce_only \in BOOLEAN :
         risk_last' = RiskLast("validate_order", risk_engine, ShardMarket, subaccount_id, side,
                               order_type, price_ticks, qty, reduce_only,
                               risk_validate_order(risk_engine, ShardMarket, subaccount_id,
                                                   side, order_type, price_ticks, qty,
                                                   reduce_only))
    /\ UNCHANGED <<harness, router, walfile, batchVars, bookVars, engineVars, shardVars, hung,
                   risk_engine>>

RiskNext == RiskUpdateMark \/ RiskApplyFill \/ RiskValidate
RiskInit == harness = "RiskEngine" /\ InitState
SpecRisk == RiskInit /\ [][RiskNext]_vars

\* ---------------------------------------------------------------------
\* Reduce-only
\* ---------------------------------------------------------------------
Validated == harness = "RiskEngine" /\ risk_last.op = "validate_order"

\* the size the subaccount held in the market when validate_order ran
CurrentSize == PositionSize(risk_last.pre, risk_last.subaccount_id, risk_last.market.market_id)

\* the order would leave the subaccount with a larger position than it has
Increases ==
    Abs(CurrentSize + (IF risk_last.side = "Buy" THEN risk_last.qty ELSE 0 - risk_last.qty))
        > Abs(CurrentSize)

\* C27 as stated: validate_order rejects a reduce_only order with ReduceOnly
\* whenever |current_size + signed_qty| > |current_size|, and never returns
\* ReduceOnly for an order with reduce_only = false
C27_ReduceOnlyWhenever ==
    Validated =>
        /\ risk_last.reduce_only /\ Increases => risk_last.result = "ReduceOnly"
        /\ ~risk_last.reduce_only => risk_last.result # "ReduceOnly"

\* the order is not a Market order and its price lies outside the band around
\* the mark validate_order found (the order's own price without a mark)
FailsBand ==
    LET mark == IF risk_last.market.market_id \in DOMAIN risk_last.pre.mark_prices
                THEN risk_last.pre.mark_prices[risk_last.market.market_id]
                ELSE risk_last.price_ticks
        width == (mark * risk_last.market.price_band_bps) \div 10000
    IN /\ risk_last.order_type # "Market"
       /\ \/ risk_last.price_ticks < mark - width
          \/ risk_last.price_ticks > mark + width

\* C27, amended: validate_order rejects a reduce_only order whenever
\* |current_size + signed_qty| > |current_size| (also from a flat subaccount,
\* also when max position and margin would allow it): with PriceBand when the
\* order fails the price-band check, which comes first, and with ReduceOnly
\* otherwise; it never returns ReduceOnly for an order with reduce_only = false
C27_ReduceOnlyAfterPriceBand ==
    Validated =>
        /\ risk_last.reduce_only /\ Increases /\ ~FailsBand => risk_last.result = "ReduceOnly"
        /\ risk_last.reduce_only /\ Increases /\ FailsBand => risk_last.result = "PriceBand"
        /\ ~risk_last.reduce_only => risk_last.result # "ReduceOnly"

\* a flat subaccount sent a reduce-only order that exceeds the position limit
\* as well, inside the band, and got ReduceOnly
C27_Witness ==
    /\ Validated
    /\ risk_last.reduce_only
    /\ CurrentSize = 0
    /\ risk_last.qty > ShardMarket.max_position
    /\ risk_last.result = "ReduceOnly"

\* ---------------------------------------------------------------------
\* Price band
\* ---------------------------------------------------------------------

\* the mark_price of the most recent PriceUpdate for the market in a log, if any
LastPriceUpdate(wal, market_id) ==
    LET updates == {i \in 1..Len(wal) : /\ wal[i].event.kind = "PriceUpdate"
                                        /\ wal[i].event.market_id = market_id}
    IN IF updates = {} THEN NoneStr ELSE Some(wal[SetMax(updates)].event.mark_price)

\* the shard answered a NewOrder for one of its markets
LastOrderAnswered ==
    /\ LastHandled
    /\ shard_last.event.kind = "NewOrder"
    /\ shard_last.event.market_id \in DOMAIN shard_last.pre.markets
    /\ shard_last.outputs # <<>>
    /\ shard_last.outputs[1].event.kind = "OrderAck"

\* the price of the order lies outside the band around the mark of the most
\* recent PriceUpdate, around its own price when there was none
OutsideBand ==
    LET found == LastPriceUpdate(shard_last.pre.wal, shard_last.event.market_id)
        mark == IF found = NoneStr THEN shard_last.event.price_ticks ELSE found[1]
        band == shard_last.pre.markets[shard_last.event.market_id].config.price_band_bps
        width == (mark * band) \div 10000
    IN \/ shard_last.event.price_ticks < mark - width
       \/ shard_last.event.price_ticks > mark + width

\* C28: the price-band check of a non-Market order in market m uses the
\* mark_price of the most recent PriceUpdate handled for m, and the order's own
\* price when none was handled yet; creating the shard or applying a
\* market-config update does not set or change the mark. The order is
\* rejected with "price band" exactly when its price lies outside
\* [mark - mark*band_bps/10000, mark + mark*band_bps/10000] (an order outside
\* the band is never accepted), and Market orders are never rejected for
\* price band.
C28_BandAroundLastPriceUpdate ==
    LastOrderAnswered =>
        /\ shard_last.outputs[1].event.reject_reason = Some("price band") =>
              shard_last.event.order_type # "Market" /\ OutsideBand
        /\ shard_last.event.order_type # "Market" /\ OutsideBand =>
              shard_last.outputs[1].event.status = "Rejected"

\* ---------------------------------------------------------------------
\* Price levels
\* ---------------------------------------------------------------------

\* the order ids resting on a side of a book at a price
RestingAt(b, side, price_ticks) ==
    {b.orders.entries[idx].order_id : idx \in
        {i \in DOMAIN b.orders.entries : /\ b.orders.entries[i].side = side
                                          /\ b.orders.entries[i].price_ticks = price_ticks}}

\* an order of the other side rests at a price an order of side at price_ticks
\* would trade with
RestsCrossing(b, side, price_ticks) ==
    \E p \in DOMAIN SideMap(b, Opposite(side)) :
        /\ RestingAt(b, Opposite(side), p) # {}
        /\ IF side = "Buy" THEN p <= price_ticks ELSE p >= price_ticks

\* C29: after any sequence of place_order and cancel calls neither bids nor
\* asks holds a price level without resting orders, so snapshot(depth) reports
\* only prices with quantity > 0 and would_cross(side, price) is true only
\* when an order of the other side rests at a crossing price
C29_NoLevelWithoutOrders ==
    harness = "OrderBook" /\ ~hung =>
        /\ \A side \in Sides : \A price_ticks \in DOMAIN SideMap(book, side) :
              RestingAt(book, side, price_ticks) # {}
        /\ \A level \in {snapshot(book, BookDeltaDepth).bids[i] :
                             i \in 1..Len(snapshot(book, BookDeltaDepth).bids)}
                      \cup {snapshot(book, BookDeltaDepth).asks[i] :
                               i \in 1..Len(snapshot(book, BookDeltaDepth).asks)} :
              level[2] > 0
        /\ \A side \in Sides, price_ticks \in Prices :
              would_cross(book, side, price_ticks) => RestsCrossing(book, side, price_ticks)

\* ---------------------------------------------------------------------
\* Open-order counters
\* ---------------------------------------------------------------------

\* the orders of a subaccount that rest in a book
RestingOf(b, subaccount_id) ==
    {order_id \in DOMAIN b.order_index :
        b.orders.entries[b.order_index[order_id]].subaccount_id = subaccount_id}

\* C30: after every handle_event, in each market the open-order counter of
\* each subaccount equals the number of that subaccount's orders resting in
\* the market's book (an absent counter counts as 0): it goes up by one
\* exactly when a taker rests and down by one exactly when a resting order is
\* cancelled or fully filled
C30_CounterIsRestingOrders ==
    LastHandled /\ shard_last.returned =>
        \A market_id \in DOMAIN shard.markets, subaccount_id \in SubaccountIds :
            open_orders_for_subaccount(shard.markets[market_id], subaccount_id)
                = Cardinality(RestingOf(shard.markets[market_id].book, subaccount_id))

\* a maker was filled completely and its subaccount's counter went down
C30_Witness ==
    /\ LastHandled
    /\ shard_last.returned
    /\ shard_last.event.kind = "NewOrder"
    /\ \E subaccount_id \in SubaccountIds :
          /\ open_orders_for_subaccount(shard_last.pre.markets[1], subaccount_id) = 1
          /\ open_orders_for_subaccount(shard.markets[1], subaccount_id) = 0
          /\ RestingOf(shard.markets[1].book, subaccount_id) = {}

\* ---------------------------------------------------------------------
\* Owner records
\* ---------------------------------------------------------------------

\* the order ids resting in the books of a shard
RestingIds(s) == UNION {DOMAIN s.markets[market_id].book.order_index : market_id \in DOMAIN s.markets}

\* C31: after every handle_event on Continuous markets, order_owners holds a
\* record for an order id if and only if that order rests in a book: an
\* accepted order that did not rest leaves no record, a maker's record is
\* dropped when it is fully filled or cancelled, and a later CancelOrder for an
\* id without a record produces no output
C31_OwnersAreRestingOrders ==
    LastHandled /\ shard_last.returned =>
        /\ DOMAIN shard.order_owners = RestingIds(shard)
        /\ /\ shard_last.event.kind = "CancelOrder"
           /\ shard_last.event.order_id \notin DOMAIN shard_last.pre.order_owners
           => shard_last.outputs = <<>>

\* an Ioc order was accepted, traded nothing or a part, and left no record,
\* while the record of a resting maker stayed
C31_Witness ==
    /\ LastHandled
    /\ shard_last.returned
    /\ shard_last.event.kind = "NewOrder"
    /\ shard_last.event.tif = "Ioc"
    /\ shard_last.outputs # <<>>
    /\ IsAck(shard_last.outputs[1], "Accepted")
    /\ shard_last.outputs[1].event.assigned_order_id \notin DOMAIN shard.order_owners
    /\ shard.order_owners # EmptyMap


\* ---------------------------------------------------------------------
\* MatchingEngine: Fok, the remainder and the report
\* ---------------------------------------------------------------------

\* the book of market m1, an absent book read as the empty one
\* (MatchingEngine::snapshot reads it so)
EngineBookOf(e) == IF "m1" \in DOMAIN e.books THEN e.books["m1"] ELSE ME_OrderBookDefault

\* the resting orders an order may trade with: the opposite side, and for a
\* Limit order at its limit price or better
EngineAcceptable(order, orders) ==
    {id \in DOMAIN orders :
       /\ orders[id].side = ME_opposite(order.side)
       /\ \/ order.kind = "Market"
          \/ IF order.side = "Bid" THEN orders[id].price <= order.price
             ELSE orders[id].price >= order.price}

RECURSIVE EngineAvailable(_, _)
EngineAvailable(orders, ids) ==
    IF ids = {} THEN 0
    ELSE LET id == CHOOSE x \in ids : TRUE
         IN orders[id].remaining + EngineAvailable(orders, ids \ {id})

RECURSIVE EngineFilledQty(_)
EngineFilledQty(fs) ==
    IF fs = <<>> THEN 0 ELSE Head(fs).quantity + EngineFilledQty(Tail(fs))

\* the ids queued in some level of a book
EngineQueued(b) ==
    UNION ({SeqToSet(b.bids[price]) : price \in DOMAIN b.bids}
             \cup {SeqToSet(b.asks[price]) : price \in DOMAIN b.asks})

EngineRests(b, order_id) == order_id \in DOMAIN b.orders \/ order_id \in EngineQueued(b)

EnginePlaced == harness = "MatchingEngine" /\ engine_last.op = "place"

\* C32: MatchingEngine.place_order of a Fok order (of positive quantity) that
\* the resting orders at acceptable prices cannot fill completely returns
\* Err(FokNotFillable) and leaves the book and the next order id as they
\* were; a Fok order that can be filled completely is fully filled and
\* nothing of it rests
C32_FokAllOrNothing ==
    (EnginePlaced /\ engine_last.order.time_in_force = "Fok"
       /\ engine_last.order.quantity > 0) =>
      LET order == engine_last.order
          pre == EngineBookOf(engine_last.pre).orders
          available == EngineAvailable(pre, EngineAcceptable(order, pre))
      IN IF available < order.quantity
         THEN /\ ~engine_last.ok
              /\ engine_last.variant = "FokNotFillable"
              /\ engine_last.fills = <<>>
              /\ EngineBookOf(engine) = EngineBookOf(engine_last.pre)
              /\ engine.next_order_id = engine_last.pre.next_order_id
         ELSE /\ engine_last.ok
              /\ engine_last.variant = "FullyFilled"
              /\ EngineFilledQty(engine_last.fills) = order.quantity
              /\ ~EngineRests(EngineBookOf(engine), engine_last.order_id)

\* a Limit Fok order met a maker at an acceptable price and one beyond its
\* limit, together enough for it, and was refused
C32_Witness ==
    /\ EnginePlaced
    /\ engine_last.order.time_in_force = "Fok"
    /\ engine_last.order.kind = "Limit"
    /\ engine_last.variant = "FokNotFillable"
    /\ LET pre == EngineBookOf(engine_last.pre).orders
           order == engine_last.order
       IN /\ EngineAcceptable(order, pre) # {}
          /\ EngineAvailable(pre, EngineAcceptable([order EXCEPT !.kind = "Market"], pre))
               >= order.quantity

\* a Fok order was filled completely by two makers
C32_WitnessFilled ==
    /\ EnginePlaced
    /\ engine_last.order.time_in_force = "Fok"
    /\ engine_last.variant = "FullyFilled"
    /\ Len(engine_last.fills) = 2


\* the order as add_resting stores it
EngineRested(order, remaining) ==
    [user_id |-> order.user_id, side |-> order.side, price |-> order.price,
     remaining |-> remaining]

\* the order is the last of the queue at its limit price on its own side and
\* is queued nowhere else
EnginePosted(b, order, order_id, remaining) ==
    LET levels == ME_Levels(b, order.side)
        other == ME_Levels(b, ME_opposite(order.side))
    IN /\ order_id \in DOMAIN b.orders
       /\ b.orders[order_id] = EngineRested(order, remaining)
       /\ order.price \in DOMAIN levels
       /\ levels[order.price] # <<>>
       /\ levels[order.price][Len(levels[order.price])] = order_id
       /\ \A price \in DOMAIN levels :
            \A i \in 1..Len(levels[price]) :
              levels[price][i] = order_id
                => price = order.price /\ i = Len(levels[price])
       /\ \A price \in DOMAIN other : order_id \notin SeqToSet(other[price])

\* the variant of ExecutionReport that names what happened
EngineVariantFor(filled, remainder, rests) ==
    IF remainder = 0 THEN "FullyFilled"
    ELSE IF rests THEN (IF filled = 0 THEN "Posted" ELSE "PartiallyFilledAndPosted")
    ELSE (IF filled = 0 THEN "Canceled" ELSE "PartiallyFilledAndCanceled")

\* C33: in MatchingEngine.place_order the unfilled remainder rests if and
\* only if the order is a Limit order with time_in_force Gtc, and then at its
\* limit price with exactly the unfilled quantity; the remainder of an Ioc
\* order and of a Market order is cancelled and is not in the book; the
\* report variant and its remaining say what happened
C33_RemainderRestsIffLimitGtc ==
    (EnginePlaced /\ engine_last.ok) =>
      LET order == engine_last.order
          b == EngineBookOf(engine)
          filled == EngineFilledQty(engine_last.fills)
          remainder == order.quantity - filled
          rests == EngineRests(b, engine_last.order_id)
      IN /\ remainder >= 0
         /\ rests <=> (remainder > 0 /\ order.kind = "Limit" /\ order.time_in_force = "Gtc")
         /\ rests => EnginePosted(b, order, engine_last.order_id, remainder)
         /\ engine_last.variant = EngineVariantFor(filled, remainder, rests)
         /\ engine_last.variant # "FullyFilled" => engine_last.remaining = remainder

\* a Limit Gtc order traded a part and rested the other part at its limit
\* price, above a bid that rested before
C33_Witness ==
    /\ EnginePlaced
    /\ engine_last.order.side = "Bid"
    /\ engine_last.variant = "PartiallyFilledAndPosted"
    /\ engine_last.remaining = 1
    /\ Cardinality(DOMAIN EngineBookOf(engine).bids) = 2

\* a Market order with time_in_force Gtc traded a part and its remainder
\* was cancelled
C33_WitnessMarket ==
    /\ EnginePlaced
    /\ engine_last.order.kind = "Market"
    /\ engine_last.order.time_in_force = "Gtc"
    /\ engine_last.variant = "PartiallyFilledAndCanceled"

\* an Ioc Limit order found nothing at its price and was cancelled whole
C33_WitnessIoc ==
    /\ EnginePlaced
    /\ engine_last.order.kind = "Limit"
    /\ engine_last.order.time_in_force = "Ioc"
    /\ engine_last.variant = "Canceled"
    /\ EngineBookOf(engine_last.pre).orders # EmptyMap


\* ---------------------------------------------------------------------
\* OrderBook: termination and the crossed book
\* ---------------------------------------------------------------------

\* C34 as claimed: OrderBook.place_order always terminates: on every book
\* reached through place_order and cancel, for every incoming order and
\* every max_matches, the call returns, with at most max_matches fills
C34_PlaceOrderTerminates ==
    harness = "OrderBook" =>
        /\ ~hung
        /\ book_last.op = "place" => Len(book_last.fills) <= book_last.max_matches


\* a bid rests at or above the price of a resting ask
Crossed(b) ==
    \E bid \in Prices, ask \in Prices :
        /\ RestingAt(b, "Buy", bid) # {}
        /\ RestingAt(b, "Sell", ask) # {}
        /\ bid >= ask

\* C35 as claimed: the book is never left crossed: a place_order with
\* max_matches >= 1 or a cancel on a book that is not crossed leaves the
\* highest price at which a bid rests strictly below the lowest price at
\* which an ask rests
C35_NeverCrossed ==
    /\ harness = "OrderBook"
    /\ ~hung
    /\ \/ book_last.op = "cancel"
       \/ book_last.op = "place" /\ book_last.max_matches >= 1
    /\ ~Crossed(book_last.pre)
    => ~Crossed(book)


\* ---------------------------------------------------------------------
\* Cancel by another subaccount
\* ---------------------------------------------------------------------

\* C36 as claimed: a CancelOrder naming a resting order that belongs to
\* another subaccount leaves the books, the owner records and the open-order
\* counters unchanged and emits no output
C36_CancelOnlyByOwner ==
    /\ LastHandled
    /\ shard_last.returned
    /\ shard_last.event.kind = "CancelOrder"
    /\ shard_last.event.order_id \in DOMAIN shard_last.pre.order_owners
    /\ shard_last.pre.order_owners[shard_last.event.order_id][1]
         # shard_last.event.subaccount_id
    => /\ shard_last.outputs = <<>>
       /\ shard.markets = shard_last.pre.markets
       /\ shard.order_owners = shard_last.pre.order_owners


\* ---------------------------------------------------------------------
\* Position limits
\* ---------------------------------------------------------------------
MaxPositionSeq == 4

\* one Continuous market whose cap lets a subaccount rest two orders, and
\* three subaccounts that send limit orders at one price
PositionMarket == [ShardMarket EXCEPT !.max_open_orders_per_subaccount = 2]
PositionInitial == EngineShardNew(0, <<PositionMarket>>, <<>>, RiskStateNew)
PositionSubaccounts == {1, 2, 3}

PositionOrders ==
    {NewOrder(FreshRequest, 1, subaccount_id, side, "Limit", tif, 1, MaxQty, FALSE) :
        subaccount_id \in PositionSubaccounts, side \in Sides, tif \in ShardTifs}

PositionNewOrder ==
    /\ harness = "EngineShardPosition"
    /\ ~hung
    /\ shard.engine_seq < MaxPositionSeq
    /\ \E order \in PositionOrders, ts \in Timestamps :
         ShardHandled(order, ts, handle_event(shard, order, ts))
    /\ UNCHANGED <<harness, router, walfile, riskVars, batchVars, bookVars, engineVars>>

\* the process stops between two inputs and a new shard is built from the
\* snapshot of the old one
PositionRestore ==
    /\ harness = "EngineShardPosition"
    /\ ~hung
    /\ shard_last.op = "handle_event"
    /\ shard.engine_seq < MaxPositionSeq
    /\ shard' = restore(shard_snapshot(shard), <<PositionMarket>>, shard.wal, RiskStateNew)
    /\ shard_last' = ShardLast("restore", [kind |-> "none"], 0, shard, <<>>, TRUE)
    /\ UNCHANGED <<harness, router, walfile, riskVars, batchVars, bookVars, engineVars, hung>>

PositionNext == PositionNewOrder \/ PositionRestore

PositionInit ==
    /\ harness = "EngineShardPosition"
    /\ book = OrderBookNew
    /\ book_next = 1
    /\ book_last = BookIdle
    /\ engine = MatchingEngineNew
    /\ engine_last = EngineIdle
    /\ shard = PositionInitial
    /\ shard_last = ShardLast("none", [kind |-> "none"], 0, PositionInitial, <<>>, TRUE)
    /\ hung = FALSE
    /\ batch = BatchAuctionDefault
    /\ batch_last = BatchIdle
    /\ router = RouterIdle
    /\ walfile = WalFileNone
    /\ risk_engine = RiskStateNew
    /\ risk_last = RiskIdle

SpecPosition == PositionInit /\ [][PositionNext]_vars

\* C37 as claimed: starting from an empty risk state, after any sequence of
\* handle_event calls the position of every subaccount in a market is within
\* the market's max_position: |size| <= max_position
C37_PositionWithinLimit ==
    harness = "EngineShardPosition" /\ ~hung =>
        \A subaccount_id \in PositionSubaccounts :
            LET size == PositionSize(shard.risk, subaccount_id, 1)
            IN /\ size <= shard.markets[1].config.max_position
               /\ -size <= shard.markets[1].config.max_position


\* ---------------------------------------------------------------------
\* Conservation of positions
\* ---------------------------------------------------------------------
RECURSIVE SumSizes(_, _, _)
SumSizes(rs, market_id, todo) ==
    IF todo = {} THEN 0
    ELSE LET subaccount_id == CHOOSE x \in todo : TRUE
         IN PositionSize(rs, subaccount_id, market_id)
              + SumSizes(rs, market_id, todo \ {subaccount_id})

\* the sizes of all subaccounts in every market of the shard sum to zero
Conserved(s) ==
    \A market_id \in DOMAIN s.markets :
        SumSizes(s.risk, market_id, DOMAIN s.risk.subaccounts) = 0

\* C38: starting from an empty risk state, after any sequence of handle_event
\* calls (and restores) the position sizes of all subaccounts in a market sum
\* to zero
C38_PositionsConserved ==
    harness \in {"EngineShard", "EngineShardMulti", "EngineShardPosition"} /\ ~hung
        => Conserved(shard)


\* the last call on the three-subaccount shard returned these Fill events
PositionFills ==
    {shard_last.outputs[i].event : i \in OutputsOfKind(shard_last.outputs, "Fill")}

\* a resting order that a restore had put back was filled by another
\* subaccount, and both hold a position
C38_Witness ==
    /\ harness = "EngineShardPosition"
    /\ shard_last.op = "handle_event"
    /\ shard_last.returned
    /\ shard_last.pre.dedupe = <<>>
    /\ shard_last.pre.engine_seq > 0
    /\ PositionFills # {}
    /\ \E subaccount_id \in PositionSubaccounts : PositionSize(shard.risk, subaccount_id, 1) > 0

\* an order traded with a resting order of its own subaccount
C38_WitnessSelfTrade ==
    /\ harness = "EngineShardPosition"
    /\ shard_last.op = "handle_event"
    /\ \E fill \in PositionFills :
         /\ fill.maker_order_id \in DOMAIN shard_last.pre.order_owners
         /\ shard_last.pre.order_owners[fill.maker_order_id][1] = shard_last.event.subaccount_id


\* ---------------------------------------------------------------------
\* Limit prices in the batch auction
\* ---------------------------------------------------------------------

\* the order of the cleared batch with this id
ClearedOrder(order_id) ==
    batch_last.pre[CHOOSE i \in 1..Len(batch_last.pre) : batch_last.pre[i].order_id = order_id]

\* C39 as claimed: clear never trades an order through its limit: every fill
\* at the clearing price p names a buy order (taker_order_id) that is Market
\* or has price_ticks >= p and a sell order (maker_order_id) that is Market
\* or has price_ticks <= p
C39_NoTradeThroughLimit ==
    LastClearOfOrders =>
        \A i \in 1..Len(batch_last.fills) :
            LET fill == batch_last.fills[i]
                buy == ClearedOrder(fill.taker_order_id)
                sell == ClearedOrder(fill.maker_order_id)
            IN /\ buy.order_type = "Market" \/ buy.price_ticks >= fill.price_ticks
               /\ sell.order_type = "Market" \/ sell.price_ticks <= fill.price_ticks


\* ---------------------------------------------------------------------
\* Redelivery of a message whose handle_event failed
\* ---------------------------------------------------------------------

\* the ids of the bus messages a channel or a shard task holds
PendingIds ==
    UNION {{router.chans[shard_id][k].message.id :
              k \in {i \in 1..Len(router.chans[shard_id]) :
                       router.chans[shard_id][i].kind = "Event"}} : shard_id \in ShardIds}
      \cup {router.tasks[shard_id].msg[1].message.id :
              shard_id \in {t \in ShardIds : router.tasks[t].msg # NoneStr}}

AckedIds == {a.id : a \in router.acked}

\* the durable JetStream consumer (bus/nats.rs 49-53) delivers a message that
\* was not acknowledged once more; the router task forwards it as any other
\* message (router.rs 100-125)
BusRedeliver ==
    /\ harness = "Router"
    /\ \E id \in router.failed \ (AckedIds \cup PendingIds), ts \in Timestamps :
         router' = Forward(router, router.delivered[id], ts)
    /\ UNCHANGED <<harness, walfile, riskVars, batchVars, bookVars, engineVars, shardVars, hung>>

\* the router without the market-update task
RedeliveryNext ==
    \/ RouterReceive
    \/ ShardTaskReceive
    \/ ShardTaskWrite
    \/ ShardTaskPublish
    \/ ShardTaskAck
    \/ BusRedeliver
SpecRedelivery == RouterInit /\ [][RedeliveryNext]_vars

\* the bus message is a NewOrder
IsNewOrderMessage(id) ==
    /\ decode_input(router.delivered[id].payload) # NoneStr
    /\ decode_input(router.delivered[id].payload)[1].kind = "NewOrder"

\* the NewOrder messages a shard has taken from its channel
HandledOrders(shard_id) ==
    {router.handled[shard_id][k] :
       k \in {i \in 1..Len(router.handled[shard_id]) :
                IsNewOrderMessage(router.handled[shard_id][i])}}

\* C40 as claimed: a failed handle_event loses no order: a NewOrder message
\* whose handle_event returned an error is not acknowledged by that attempt,
\* and the attempt that is acknowledged after redelivery returns the order's
\* OrderAck; no order is applied a second time (a shard assigns at most one
\* order id per NewOrder message)
C40_FailedOrderNotLost ==
    harness = "Router" =>
        /\ \A a \in router.acked :
              (a.id \in router.failed /\ IsNewOrderMessage(a.id)) => a.outputs >= 1
        /\ \A shard_id \in ShardIds :
              router.shards[shard_id].next_order_id - 1
                 <= Cardinality(HandledOrders(shard_id))

====
